---------------------------- MODULE Spec2Model ----------------------------
(***************************************************************************)
(* Model of ocypus-digital-rs: the temperature acquisition and display     *)
(* pipeline (sensor fallback chains, numeric extraction, report encoder).  *)
(*                                                                         *)
(* Conventions                                                             *)
(*  - An f32 is a record [k, v]: k = "nan", k = "inf" (v = 1 or -1) or     *)
(*    k = "fin" with v the value in units of 1/FixedDen.  Inputs are       *)
(*    multiples of 0.1; t * 9.0 / 5.0 + 32.0 of such an input has the      *)
(*    exact value (9n + 1600)/50, and the f32 rounding error (below 1e-3   *)
(*    for |t| < 1e4) never crosses an integer, because a non-integer      *)
(*    exact value is at least 1/50 away from every integer and an integer *)
(*    exact value (t a multiple of 5) is computed without rounding.       *)
(*  - A string is a sequence of one-character strings.                     *)
(*  - A report is a function from the byte offsets 0..63 to bytes.         *)
(***************************************************************************)
EXTENDS Integers, Sequences, FiniteSets, TLC

VARIABLES
    enc_t,      \* the Celsius reading handed to the encoder (an f32)
    enc_res,    \* the last encoder call: [fn, unit, ok, report]
    tools,      \* the external commands: tool name -> [status, out]
    gpu_res,    \* the last GPU read: [fn, ok, val, ran]
    cpu_res,    \* the last CPU read: [fn, ok, val]
    num_s,      \* the string handed to extract_number
    num_res,    \* the last extract_number call: [fn, some, str]
    program,    \* the program that runs: "main.rs" or "monitor.rs"
    config,     \* the Config the program runs with
    main_pc,    \* where the main thread stands
    prod_pc,    \* where the polling thread stands
    chan,       \* the mpsc channel: readings sent and not yet received
    temp,       \* the reading held by `for temp in rx`
    device,     \* the handle held by main (`let mut device`)
    prod_log,   \* what the polling thread has done, in order
    cons_log,   \* what the main thread has done, in order
    dm,         \* the DeviceManager: [api, device]
    dm_log,     \* the calls made on the DeviceManager, in order
    validated,  \* the last Config::validate call: [fn, ok, err, config]
    sensor_info \* the last SensorManager query: [kind, available, ok, val]

(* The state of the monitoring loop and of the DeviceManager.              *)
pipeline ==
    <<program, config, main_pc, prod_pc, chan, temp, device, prod_log, cons_log,
      dm, dm_log>>

vars ==
    <<enc_t, enc_res, tools, gpu_res, cpu_res, num_s, num_res, program, config,
      main_pc, prod_pc, chan, temp, device, prod_log, cons_log, dm, dm_log,
      validated, sensor_info>>

(* The results of the calls that only answer a question.                   *)
queryVars == <<validated, sensor_info>>

---------------------------------------------------------------------------
(* Program constants: config.rs 6-9, main.rs 12-15.                        *)
REPORT_ID == 7
REPORT_LENGTH == 64

(* Denominator of the fixed-point representation of finite f32 values.     *)
FixedDen == 50

(* Saturation bound of `as i32` (main.rs 160).                             *)
I32Max == 2147483647
I32Min == (-I32Max) - 1

(* Bounds of the encoder inputs, in tenths of a degree Celsius.            *)
NegTenths == 300
MaxTenths == 15000

---------------------------------------------------------------------------
(* f32 values                                                              *)
NaN == [k |-> "nan", v |-> 0]
PosInf == [k |-> "inf", v |-> 1]
NegInf == [k |-> "inf", v |-> -1]
Fin(n) == [k |-> "fin", v |-> n]
Tenths(n) == Fin(n * (FixedDen \div 10))
Degrees(n) == Fin(n * FixedDen)

(* x < y on f32 (false whenever an operand is NaN).                        *)
F32Lt(x, y) ==
    IF x.k = "nan" \/ y.k = "nan" THEN FALSE
    ELSE IF x.k = "inf" THEN x.v < 0 /\ ~(y.k = "inf" /\ y.v < 0)
    ELSE IF y.k = "inf" THEN y.v > 0
    ELSE x.v < y.v

(* temp_celsius * 9.0 / 5.0 + 32.0 (device.rs 103, monitor.rs 90).         *)
CelsiusToFahrenheit(t) ==
    IF t.k = "fin" THEN Fin((t.v * 9) \div 5 + 32 * FixedDen) ELSE t

(* A clamp whose ceiling carries one digit too many (9999 for 999).        *)
F32ClampCeilingTypo(x, lo, hi) ==
    LET wrong == Fin(hi.v * 10 + 9 * FixedDen)
    IN  IF x.k = "nan" THEN x
        ELSE IF F32Lt(x, lo) THEN lo
        ELSE IF F32Lt(wrong, x) THEN wrong
        ELSE x

(* f32::clamp(min, max): NaN stays NaN, otherwise the nearest bound.       *)
F32Clamp(x, lo, hi) ==
    IF x.k = "nan" THEN x
    ELSE IF F32Lt(x, lo) THEN lo
    ELSE IF F32Lt(hi, x) THEN hi
    ELSE x

(* `x as u32`: NaN gives 0, negatives saturate to 0, a finite value is     *)
(* truncated toward zero.  Saturation to u32::MAX starts at 2^32; the      *)
(* cast is applied to clamped values only (device.rs 107-108), which are   *)
(* NaN or finite, so no arm for an infinity is needed.                     *)
F32AsU32(x) ==
    CASE x.k = "nan" -> 0
      [] x.k = "fin" /\ x.v < 0 -> 0
      [] x.k = "fin" /\ x.v >= 0 -> x.v \div FixedDen

(* `x as i32` (main.rs 160): NaN gives 0, infinities saturate, a finite    *)
(* value is truncated toward zero.                                         *)
F32AsI32(x) ==
    CASE x.k = "nan" -> 0
      [] x.k = "inf" -> IF x.v > 0 THEN I32Max ELSE I32Min
      [] x.k = "fin" /\ x.v >= 0 -> x.v \div FixedDen
      [] x.k = "fin" /\ x.v < 0 -> -((-x.v) \div FixedDen)

(* `n as u8` of a non-negative integer.                                    *)
AsU8(n) == n % 256

(* [0u8; REPORT_LENGTH]                                                    *)
ZeroReport == [i \in 0..(REPORT_LENGTH - 1) |-> 0]

---------------------------------------------------------------------------
(* config.rs 12-16: TemperatureUnit                                        *)
TemperatureUnit == {"Celsius", "Fahrenheit"}

(* device.rs 101-104: display_temp                                         *)
DisplayTemp(temp_celsius, unit) ==
    IF unit = "Celsius" THEN temp_celsius ELSE CelsiusToFahrenheit(temp_celsius)

(* An encoder that clamps the Celsius input and converts afterwards.       *)
build_temperature_report_clamp_input(temp_celsius, unit) ==
    LET clamped_in == F32Clamp(temp_celsius, Degrees(0), Degrees(999))
        temp_int == F32AsU32(DisplayTemp(clamped_in, unit))
    IN  [ok |-> TRUE,
         report |-> [ZeroReport EXCEPT ![0] = REPORT_ID,
                                       ![3] = AsU8(temp_int \div 100),
                                       ![4] = AsU8((temp_int \div 10) % 10),
                                       ![5] = AsU8(temp_int % 10)]]

(* An encoder that returns an error for NaN and the infinities.            *)
build_temperature_report_rejects_nonfinite(temp_celsius, unit) ==
    LET display_temp == DisplayTemp(temp_celsius, unit)
        clamped_temp == F32Clamp(display_temp, Degrees(0), Degrees(999))
        temp_int == F32AsU32(clamped_temp)
    IN  IF temp_celsius.k # "fin"
        THEN [ok |-> FALSE, report |-> ZeroReport]
        ELSE [ok |-> TRUE,
              report |-> [ZeroReport EXCEPT ![0] = REPORT_ID,
                                            ![3] = AsU8(temp_int \div 100),
                                            ![4] = AsU8((temp_int \div 10) % 10),
                                            ![5] = AsU8(temp_int % 10)]]

(* device.rs 93-125: build_temperature_report                              *)
build_temperature_report(temp_celsius, unit) ==
    LET display_temp == DisplayTemp(temp_celsius, unit)
        clamped_temp == F32Clamp(display_temp, Degrees(0), Degrees(999))
        temp_int == F32AsU32(clamped_temp)
    IN  [ok |-> TRUE,
         report |-> [ZeroReport EXCEPT ![0] = REPORT_ID,
                                       ![3] = AsU8(temp_int \div 100),
                                       ![4] = AsU8((temp_int \div 10) % 10),
                                       ![5] = AsU8(temp_int % 10)]]

---------------------------------------------------------------------------
(* main.rs 31-33: the unit character of the legacy configuration           *)
UnitChars == {"c", "C", "f", "F"}

(* A clamp that uses the ceiling 999 of the other encoder.                 *)
LegacyClampCanonicalCeiling(x, lo, hi) ==
    IF x < lo THEN lo ELSE IF x > 999 THEN 999 ELSE x

(* if x < lo { x = lo } else if x > hi { x = hi }  (main.rs 161-165 and    *)
(* 175-179)                                                                *)
LegacyClamp(x, lo, hi) == IF x < lo THEN lo ELSE IF x > hi THEN hi ELSE x

(* (temp_c as f32 * 9.0 / 5.0 + 32.0).round() as i32 for an integer        *)
(* temp_c: the exact value is (9c + 160)/5, whose fraction is a multiple   *)
(* of 0.2, so rounding half away from zero is floor(x + 1/2).              *)
LegacyFahrenheit(temp_c) == (2 * (9 * temp_c + 160) + 5) \div 10

(* main.rs 158-194: build_report (legacy encoder)                          *)
build_report(temp_celsius, unit) ==
    LET temp_c == LegacyClamp(F32AsI32(temp_celsius), 0, 99)
        converted == IF unit = "f" \/ unit = "F"
                     THEN LegacyFahrenheit(temp_c) ELSE temp_c
        display_temp == LegacyClamp(converted, 0, 212)
        hundreds == display_temp \div 100
        tens == (display_temp % 100) \div 10
        ones == display_temp % 10
    IN  [ZeroReport EXCEPT ![0] = REPORT_ID,
                           ![1] = 255,
                           ![2] = 255,
                           ![3] = AsU8(hundreds),
                           ![4] = AsU8(tens),
                           ![5] = AsU8(ones)]

---------------------------------------------------------------------------
(* Encoder harness: the reading is any f32 of the input set; each encoder  *)
(* is applied to it once.                                                  *)
EncoderInputs ==
    {Tenths(n) : n \in (-NegTenths)..MaxTenths}
        \cup {Degrees(1500), Degrees(150), Degrees(-10), NaN, PosInf, NegInf}

NoEnc == [fn |-> "none", unit |-> "", ok |-> FALSE, report |-> <<>>]
NoGpu == [fn |-> "none", ok |-> FALSE, val |-> [k |-> "none", v |-> 0], ran |-> <<>>]
NoCpu == [fn |-> "none", ok |-> FALSE, val |-> [k |-> "none", v |-> 0]]
NoNum == [fn |-> "none", some |-> FALSE, str |-> <<>>]
NoTools == [t \in {} |-> 0]
NoHandle == [open |-> FALSE, path |-> "", n |-> 0]
NoManager == [api |-> FALSE, device |-> NoHandle]

NoValidate == [fn |-> "none", ok |-> FALSE, err |-> "", config |-> <<>>]
NoInfo == [kind |-> "none", available |-> FALSE, ok |-> FALSE, val |-> [k |-> "none", v |-> 0]]

(* Neither Config::validate nor the SensorManager has been called.         *)
QueriesIdle ==
    /\ validated = NoValidate
    /\ sensor_info = NoInfo

(* Neither program has been started and no DeviceManager exists.           *)
PipelineIdle ==
    /\ program = ""
    /\ config = <<>>
    /\ main_pc = "idle"
    /\ prod_pc = "idle"
    /\ chan = <<>>
    /\ temp = [k |-> "none", v |-> 0]
    /\ device = NoHandle
    /\ prod_log = <<>>
    /\ cons_log = <<>>
    /\ dm = NoManager
    /\ dm_log = <<>>

InitEncoder ==
    /\ enc_t \in EncoderInputs
    /\ enc_res = NoEnc
    /\ tools = NoTools
    /\ gpu_res = NoGpu
    /\ cpu_res = NoCpu
    /\ num_s = <<>>
    /\ num_res = NoNum
    /\ PipelineIdle
    /\ QueriesIdle

BuildTemperatureReport ==
    /\ enc_res.fn = "none"
    /\ \E unit \in TemperatureUnit :
         LET r == build_temperature_report(enc_t, unit)
         IN  enc_res' = [fn |-> "build_temperature_report", unit |-> unit,
                         ok |-> r.ok, report |-> r.report]
    /\ UNCHANGED <<enc_t, tools, gpu_res, cpu_res, num_s, num_res>>
    /\ UNCHANGED <<pipeline, queryVars>>

BuildReport ==
    /\ enc_res.fn = "none"
    /\ \E unit \in UnitChars :
         enc_res' = [fn |-> "build_report", unit |-> unit,
                     ok |-> TRUE, report |-> build_report(enc_t, unit)]
    /\ UNCHANGED <<enc_t, tools, gpu_res, cpu_res, num_s, num_res>>
    /\ UNCHANGED <<pipeline, queryVars>>

NextEncoder == BuildTemperatureReport \/ BuildReport

SpecEncoder == InitEncoder /\ [][NextEncoder]_vars

---------------------------------------------------------------------------
(* Strings                                                                 *)
MaxStrLen == 5

IsAsciiDigit(c) == c \in {"0", "1", "2", "3", "4", "5", "6", "7", "8", "9"}

None == [some |-> FALSE, str |-> <<>>]
Some(str) == [some |-> TRUE, str |-> str]

---------------------------------------------------------------------------
(* sensor/gpu_sensor.rs 141-159: GpuSensor::extract_number.  The loop      *)
(* over s.chars() from position i with the locals buf and seen_digit.      *)
RECURSIVE GpuSensor_extract_loop(_, _, _, _)
GpuSensor_extract_loop(s, i, buf, seen_digit) ==
    IF i > Len(s) THEN buf
    ELSE IF IsAsciiDigit(s[i]) \/ (s[i] = "." /\ seen_digit)
         THEN GpuSensor_extract_loop(s, i + 1, Append(buf, s[i]), TRUE)
    ELSE IF seen_digit THEN buf
    ELSE GpuSensor_extract_loop(s, i + 1, buf, seen_digit)

(* The same loop without the seen_digit guard on the decimal point.        *)
RECURSIVE ExtractLoopLeadingPoint(_, _, _, _)
ExtractLoopLeadingPoint(s, i, buf, seen_digit) ==
    IF i > Len(s) THEN buf
    ELSE IF IsAsciiDigit(s[i]) \/ s[i] = "."
         THEN ExtractLoopLeadingPoint(s, i + 1, Append(buf, s[i]), TRUE)
    ELSE IF seen_digit THEN buf
    ELSE ExtractLoopLeadingPoint(s, i + 1, buf, seen_digit)

GpuSensor_extract_number_leading_point(s) ==
    LET buf == ExtractLoopLeadingPoint(s, 1, <<>>, FALSE)
    IN  IF buf = <<>> THEN None ELSE Some(buf)

GpuSensor_extract_number(s) ==
    LET buf == GpuSensor_extract_loop(s, 1, <<>>, FALSE)
    IN  IF buf = <<>> THEN None ELSE Some(buf)

(* gpu_sensor.rs 73-87: extract_number (legacy module)                     *)
RECURSIVE extract_loop(_, _, _, _)
extract_loop(s, i, buf, seen_digit) ==
    IF i > Len(s) THEN buf
    ELSE IF IsAsciiDigit(s[i]) \/ (s[i] = "." /\ seen_digit)
         THEN extract_loop(s, i + 1, Append(buf, s[i]), TRUE)
    ELSE IF seen_digit THEN buf
    ELSE extract_loop(s, i + 1, buf, seen_digit)

extract_number(s) ==
    LET buf == extract_loop(s, 1, <<>>, FALSE)
    IN  IF buf = <<>> THEN None ELSE Some(buf)

---------------------------------------------------------------------------
(* extract_number harness: every string over NumAlphabet up to MaxStrLen   *)
(* characters, and the strings of tests::test_extract_number               *)
(* (sensor/gpu_sensor.rs 194-203).                                         *)
NumAlphabet == {"1", "2", ".", "x", "%"}

TestTemperature == <<"T", "e", "m", "p", "e", "r", "a", "t", "u", "r", "e", ":", " ", "4", "5", ".", "5", "°", "C">>
Test45C == <<"4", "5", "°", "C">>
TestNoNumbers == <<"N", "o", " ", "n", "u", "m", "b", "e", "r", "s", " ", "h", "e", "r", "e">>
TwoPoints == <<"1", ".", "2", ".", "3">>

NumInputs ==
    UNION {[1..n -> NumAlphabet] : n \in 0..MaxStrLen}
        \cup {TestTemperature, Test45C, TestNoNumbers, TwoPoints}

InitNumber ==
    /\ num_s \in NumInputs
    /\ num_res = NoNum
    /\ enc_t = NaN
    /\ enc_res = NoEnc
    /\ tools = NoTools
    /\ gpu_res = NoGpu
    /\ cpu_res = NoCpu
    /\ PipelineIdle
    /\ QueriesIdle

GpuSensorExtractNumber ==
    /\ num_res.fn = "none"
    /\ LET r == GpuSensor_extract_number(num_s)
       IN  num_res' = [fn |-> "GpuSensor::extract_number",
                       some |-> r.some, str |-> r.str]
    /\ UNCHANGED <<enc_t, enc_res, tools, gpu_res, cpu_res, num_s>>
    /\ UNCHANGED <<pipeline, queryVars>>

ExtractNumber ==
    /\ num_res.fn = "none"
    /\ LET r == extract_number(num_s)
       IN  num_res' = [fn |-> "extract_number", some |-> r.some, str |-> r.str]
    /\ UNCHANGED <<enc_t, enc_res, tools, gpu_res, cpu_res, num_s>>
    /\ UNCHANGED <<pipeline, queryVars>>

NextNumber == GpuSensorExtractNumber \/ ExtractNumber

SpecNumber == InitNumber /\ [][NextNumber]_vars

---------------------------------------------------------------------------
(* Text helpers (std::str)                                                 *)
IsWhitespace(c) == c \in {" ", "\t", "\n"}

UpperLetters == <<"A", "B", "C", "D", "E", "F", "G", "H", "I", "J", "K", "L", "M",
                 "N", "O", "P", "Q", "R", "S", "T", "U", "V", "W", "X", "Y", "Z">>
LowerLetters == <<"a", "b", "c", "d", "e", "f", "g", "h", "i", "j", "k", "l", "m",
                 "n", "o", "p", "q", "r", "s", "t", "u", "v", "w", "x", "y", "z">>

(* char::to_lowercase on the ASCII letters                                 *)
LowerChar(c) ==
    IF \E i \in 1..Len(UpperLetters) : UpperLetters[i] = c
    THEN LowerLetters[CHOOSE i \in 1..Len(UpperLetters) : UpperLetters[i] = c]
    ELSE c

(* str::to_lowercase                                                       *)
ToLowercase(s) == [i \in 1..Len(s) |-> LowerChar(s[i])]

(* str::contains                                                           *)
Contains(s, sub) ==
    \E i \in 1..(Len(s) - Len(sub) + 1) : SubSeq(s, i, i + Len(sub) - 1) = sub

(* str::trim                                                               *)
Trim(s) ==
    LET keep == {i \in 1..Len(s) : ~IsWhitespace(s[i])}
    IN  IF keep = {} THEN <<>>
        ELSE SubSeq(s, CHOOSE i \in keep : \A j \in keep : i <= j,
                       CHOOSE i \in keep : \A j \in keep : i >= j)

(* str::lines: the text split at "\n"; a final line ending produces no     *)
(* empty last line.  (No "\r" occurs in the model's texts.)                *)
RECURSIVE LinesFrom(_, _, _)
LinesFrom(s, i, cur) ==
    IF i > Len(s) THEN (IF cur = <<>> THEN <<>> ELSE <<cur>>)
    ELSE IF s[i] = "\n" THEN <<cur>> \o LinesFrom(s, i + 1, <<>>)
    ELSE LinesFrom(s, i + 1, Append(cur, s[i]))

Lines(s) == LinesFrom(s, 1, <<>>)

DigitValue1(c) ==
    CHOOSE d \in 0..9 :
        <<"0", "1", "2", "3", "4", "5", "6", "7", "8", "9">>[d + 1] = c

(* The value of a string of decimal digits.                                *)
RECURSIVE DecValue(_)
DecValue(ds) ==
    IF ds = <<>> THEN 0
    ELSE 10 * DecValue(SubSeq(ds, 1, Len(ds) - 1)) + DigitValue1(ds[Len(ds)])

RECURSIVE Pow10(_)
Pow10(n) == IF n = 0 THEN 1 ELSE 10 * Pow10(n - 1)

(* Result<f32>                                                             *)
NoVal == [k |-> "none", v |-> 0]
Err == [ok |-> FALSE, val |-> NoVal]
Ok(x) == [ok |-> TRUE, val |-> x]

(* str::parse::<f32>: an optional sign, then digits with an optional       *)
(* decimal point ("5", "5.", ".5", "4.5"), or inf / infinity / nan in any  *)
(* case.  Anything else, the empty string and a string with two decimal    *)
(* points included, is an error.  The command outputs of the model carry  *)
(* at most one fractional digit and no exponent, so the value is exact in *)
(* units of 1/FixedDen.                                                    *)
ParseF32(s) ==
    LET signed == s # <<>> /\ s[1] \in {"+", "-"}
        neg == s # <<>> /\ s[1] = "-"
        body == IF signed THEN Tail(s) ELSE s
        points == {i \in 1..Len(body) : body[i] = "."}
        digits == {i \in 1..Len(body) : IsAsciiDigit(body[i])}
        word == ToLowercase(body)
    IN  IF word \in {<<"i", "n", "f">>, <<"i", "n", "f", "i", "n", "i", "t", "y">>}
        THEN Ok([k |-> "inf", v |-> IF neg THEN -1 ELSE 1])
        ELSE IF word = <<"n", "a", "n">> THEN Ok(NaN)
        ELSE IF \/ digits = {}
                \/ Cardinality(points) > 1
                \/ points \cup digits # 1..Len(body)
        THEN Err
        ELSE LET dot == IF points = {} THEN Len(body) + 1 ELSE CHOOSE i \in points : TRUE
                 int == SubSeq(body, 1, dot - 1)
                 frac == SubSeq(body, dot + 1, Len(body))
                 mag == DecValue(int) * FixedDen
                            + (DecValue(frac) * FixedDen) \div Pow10(Len(frac))
             IN  Ok(Fin(IF neg THEN -mag ELSE mag))

---------------------------------------------------------------------------
(* External commands.  tools[name] is what Command::new(name).output()     *)
(* meets: "missing" (the command cannot be executed), "failed" (it exits   *)
(* non-zero) or "success", with the standard output it printed.            *)
ToolNames == <<"nvidia-smi", "amd-smi", "rocm-smi", "sensors">>

Edge == <<"e", "d", "g", "e">>
Gpu == <<"g", "p", "u">>
Junction == <<"j", "u", "n", "c", "t", "i", "o", "n">>

---------------------------------------------------------------------------
(* sensor/gpu_sensor.rs 17-138: the four probes of GpuSensor               *)

(* The first line of `lines` (from index i) that passes `wanted` and from  *)
(* which extract_number returns Some decides the probe: its parse result   *)
(* is returned, Ok or Err (the `return` inside `for line in text.lines()`).*)
RECURSIVE GpuSensor_scan(_, _, _)
GpuSensor_scan(lines, i, words) ==
    IF i > Len(lines) THEN Err
    ELSE IF /\ (words = {} \/ \E w \in words : Contains(ToLowercase(lines[i]), w))
            /\ GpuSensor_extract_number(lines[i]).some
         THEN ParseF32(GpuSensor_extract_number(lines[i]).str)
    ELSE GpuSensor_scan(lines, i + 1, words)

try_nvidia_smi(env) ==
    LET output == env["nvidia-smi"]
        lines == Lines(output.out)
    IN  IF output.status = "missing" THEN Err
        ELSE IF output.status # "success" THEN Err
        ELSE IF lines = <<>> THEN Err
        ELSE ParseF32(Trim(lines[1]))

try_amd_smi(env) ==
    LET output == env["amd-smi"]
    IN  IF output.status = "missing" THEN Err
        ELSE IF output.status # "success" THEN Err
        ELSE GpuSensor_scan(Lines(output.out), 1, {Edge})

try_rocm_smi(env) ==
    LET output == env["rocm-smi"]
    IN  IF output.status = "missing" THEN Err
        ELSE IF output.status # "success" THEN Err
        ELSE GpuSensor_scan(Lines(output.out), 1, {})

try_sensors(env) ==
    LET output == env["sensors"]
    IN  IF output.status = "missing" THEN Err
        ELSE IF output.status # "success" THEN Err
        ELSE GpuSensor_scan(Lines(output.out), 1, {Gpu, Edge, Junction})

(* The i-th probe of the chain.                                            *)
GpuSensor_probe(i, env) ==
    CASE i = 1 -> try_nvidia_smi(env)
      [] i = 2 -> try_amd_smi(env)
      [] i = 3 -> try_rocm_smi(env)
      [] i = 4 -> try_sensors(env)

(* sensor/gpu_sensor.rs 9-15: a.or_else(b).or_else(c).or_else(d), from     *)
(* probe i on; `ran` lists the commands executed.                          *)
RECURSIVE GpuSensor_chain(_, _, _)
GpuSensor_chain(i, env, ran) ==
    LET r == GpuSensor_probe(i, env)
        now == Append(ran, ToolNames[i])
    IN  IF r.ok \/ i = Len(ToolNames)
        THEN [ok |-> r.ok, val |-> r.val, ran |-> now]
        ELSE GpuSensor_chain(i + 1, env, now)

GpuSensor_get_temperature(env) == GpuSensor_chain(1, env, <<>>)

---------------------------------------------------------------------------
(* gpu_sensor.rs 16-70: run and the four probes of the legacy module,      *)
(* each an Option<String>                                                  *)
run(env, cmd) ==
    IF env[cmd].status = "missing" THEN None
    ELSE IF env[cmd].status # "success" THEN None
    ELSE Some(env[cmd].out)

(* lines.find_map(...) and the loop of gpu_temp_sensors: the first line    *)
(* that passes `words` and from which extract_number returns Some.         *)
RECURSIVE find_map(_, _, _)
find_map(lines, i, words) ==
    IF i > Len(lines) THEN None
    ELSE IF /\ (words = {} \/ \E w \in words : Contains(ToLowercase(lines[i]), w))
            /\ extract_number(lines[i]).some
         THEN extract_number(lines[i])
    ELSE find_map(lines, i + 1, words)

gpu_temp_nvidia(env) ==
    LET out == run(env, "nvidia-smi")
    IN  IF ~out.some THEN None
        ELSE IF Lines(out.str) = <<>> THEN None
        ELSE Some(Trim(Lines(out.str)[1]))

gpu_temp_amd_smi(env) ==
    LET out == run(env, "amd-smi")
    IN  IF ~out.some THEN None ELSE find_map(Lines(out.str), 1, {Edge})

gpu_temp_rocm(env) ==
    LET out == run(env, "rocm-smi")
    IN  IF ~out.some THEN None ELSE find_map(Lines(out.str), 1, {})

gpu_temp_sensors(env) ==
    LET out == run(env, "sensors")
    IN  IF ~out.some THEN None
        ELSE find_map(Lines(out.str), 1, {Gpu, Edge, Junction})

legacy_probe(i, env) ==
    CASE i = 1 -> gpu_temp_nvidia(env)
      [] i = 2 -> gpu_temp_amd_smi(env)
      [] i = 3 -> gpu_temp_rocm(env)
      [] i = 4 -> gpu_temp_sensors(env)

(* Option::or_else over the four probes, from probe i on.                  *)
RECURSIVE legacy_chain(_, _, _)
legacy_chain(i, env, ran) ==
    LET r == legacy_probe(i, env)
        now == Append(ran, ToolNames[i])
    IN  IF r.some \/ i = Len(ToolNames)
        THEN [some |-> r.some, str |-> r.str, ran |-> now]
        ELSE legacy_chain(i + 1, env, now)

(* gpu_sensor.rs 4-14: the chain, then .and_then(|s| s.parse().ok()),      *)
(* then .ok_or_else(...).                                                  *)
get_gpu_temperature(env) ==
    LET found == legacy_chain(1, env, <<>>)
        parsed == IF found.some THEN ParseF32(found.str) ELSE Err
    IN  [ok |-> parsed.ok, val |-> parsed.val, ran |-> found.ran]

---------------------------------------------------------------------------
(* GPU harness: every combination of the four commands being missing,      *)
(* failing or succeeding with one of a few outputs.                        *)
NvOut45 ==
    <<"4", "5", "\n">>
NvOutNA ==
    <<"N", "/", "A", "\n">>
AmdOutEdge ==
    <<"G", "P", "U", ":", " ", "0", "\n", " ", "E", "D", "G", "E", ":",
      " ", "5", "1", " ", "°", "C", "\n">>
AmdOutHotspotFirst ==
    <<"H", "O", "T", "S", "P", "O", "T", ":", " ", "6", "0", "\n", "e",
      "d", "g", "e", ":", " ", "5", "2", ".", "5", "\n">>
AmdOutNoEdge ==
    <<"M", "E", "M", ":", " ", "4", "8", "\n">>
AmdOutTwoPoints ==
    <<"e", "d", "g", "e", " ", "5", ".", "1", ".", "2", "\n">>
RocmOutTemp ==
    <<"T", "e", "m", "p", " ", "(", "C", ")", ":", " ", "4", "8", ".", "0",
      "\n">>
RocmOutVersion ==
    <<"v", "1", ".", "2", ".", "3", "\n">>
RocmOutNone ==
    <<"n", "o", " ", "d", "a", "t", "a", "\n">>
SensOutEdge ==
    <<"a", "m", "d", "g", "p", "u", "-", "p", "c", "i", "\n", "e", "d",
      "g", "e", ":", " ", "+", "4", "7", ".", "0", "°", "C", "\n">>
SensOutCpuOnly ==
    <<"P", "a", "c", "k", "a", "g", "e", " ", "i", "d", " ", "0", ":", " ",
      "+", "4", "5", ".", "0", "°", "C", "\n">>
SensOutJunction ==
    <<"f", "a", "n", ":", " ", "N", "/", "A", "\n", "j", "u", "n", "c",
      "t", "i", "o", "n", ":", " ", "+", "5", "8", ".", "5", "°", "C", "\n">>

Outputs(texts) ==
    {[status |-> "missing", out |-> <<>>]}
        \cup [status : {"failed", "success"}, out : texts]

InitGpu ==
    /\ \E nv \in Outputs({NvOut45, NvOutNA, <<>>}),
          amd \in Outputs({AmdOutEdge, AmdOutHotspotFirst, AmdOutNoEdge, AmdOutTwoPoints}),
          rocm \in Outputs({RocmOutTemp, RocmOutVersion, RocmOutNone}),
          sens \in Outputs({SensOutEdge, SensOutCpuOnly, SensOutJunction}) :
            tools = [t \in {"nvidia-smi", "amd-smi", "rocm-smi", "sensors"} |->
                        CASE t = "nvidia-smi" -> nv
                          [] t = "amd-smi" -> amd
                          [] t = "rocm-smi" -> rocm
                          [] t = "sensors" -> sens]
    /\ gpu_res = NoGpu
    /\ cpu_res = NoCpu
    /\ enc_t = NaN
    /\ enc_res = NoEnc
    /\ num_s = <<>>
    /\ num_res = NoNum
    /\ PipelineIdle
    /\ QueriesIdle

GpuSensorGetTemperature ==
    /\ gpu_res.fn = "none"
    /\ LET r == GpuSensor_get_temperature(tools)
       IN  gpu_res' = [fn |-> "GpuSensor::get_temperature",
                       ok |-> r.ok, val |-> r.val, ran |-> r.ran]
    /\ UNCHANGED <<enc_t, enc_res, tools, cpu_res, num_s, num_res>>
    /\ UNCHANGED <<pipeline, queryVars>>

GetGpuTemperature ==
    /\ gpu_res.fn = "none"
    /\ LET r == get_gpu_temperature(tools)
       IN  gpu_res' = [fn |-> "get_gpu_temperature",
                       ok |-> r.ok, val |-> r.val, ran |-> r.ran]
    /\ UNCHANGED <<enc_t, enc_res, tools, cpu_res, num_s, num_res>>
    /\ UNCHANGED <<pipeline, queryVars>>

NextGpu == GpuSensorGetTemperature \/ GetGpuTemperature

SpecGpu == InitGpu /\ [][NextGpu]_vars

---------------------------------------------------------------------------
(* sensor/cpu_sensor.rs 24-29, cpu_sensor.rs 17-22: the four patterns, in  *)
(* their fixed order.  Each is its label, then any whitespace, a plus      *)
(* sign, the captured group (digits, optionally a point and digits) and    *)
(* the degree sign followed by C; each is given here by its label.         *)
LabelPackage == <<"P", "a", "c", "k", "a", "g", "e", " ", "i", "d", " ", "0", ":">>
LabelTdie == <<"T", "d", "i", "e", ":">>
LabelTctl == <<"T", "c", "t", "l", ":">>
LabelTemp1 == <<"t", "e", "m", "p", "1", ":">>

CpuPatterns == <<LabelPackage, LabelTdie, LabelTctl, LabelTemp1>>

(* The end of the longest run of characters from index j on that are       *)
(* whitespace or digits: the first index past the run.                     *)
RECURSIVE SkipWhitespace(_, _)
SkipWhitespace(text, j) ==
    IF j <= Len(text) /\ IsWhitespace(text[j]) THEN SkipWhitespace(text, j + 1) ELSE j

RECURSIVE SkipDigits(_, _)
SkipDigits(text, j) ==
    IF j <= Len(text) /\ IsAsciiDigit(text[j]) THEN SkipDigits(text, j + 1) ELSE j

(* A match of the pattern with this label starting at index i: the text of *)
(* capture group 1, or None.  The greedy repetitions never need to give    *)
(* back a character: after the whitespace comes the plus sign, after the   *)
(* digits a point or the degree sign, none of which the repetition itself  *)
(* accepts.                                                                *)
RegexMatchAt(text, i, label) ==
    LET past == i + Len(label)
        plus == SkipWhitespace(text, past)
        d1 == SkipDigits(text, plus + 1)
        d2 == SkipDigits(text, d1 + 1)
        DegC(k) == k + 1 <= Len(text) /\ text[k] = "°" /\ text[k + 1] = "C"
    IN  IF /\ past - 1 <= Len(text)
           /\ SubSeq(text, i, past - 1) = label
           /\ plus <= Len(text)
           /\ text[plus] = "+"
           /\ d1 > plus + 1
        THEN IF d1 <= Len(text) /\ text[d1] = "." /\ d2 > d1 + 1 /\ DegC(d2)
             THEN Some(SubSeq(text, plus + 1, d2 - 1))
             ELSE IF DegC(d1) THEN Some(SubSeq(text, plus + 1, d1 - 1))
             ELSE None
        ELSE None

(* Regex::captures: the leftmost match in the text, searched from index i. *)
RECURSIVE RegexCapturesFrom(_, _, _)
RegexCapturesFrom(text, i, label) ==
    IF i > Len(text) THEN None
    ELSE IF RegexMatchAt(text, i, label).some THEN RegexMatchAt(text, i, label)
    ELSE RegexCapturesFrom(text, i + 1, label)

RegexCaptures(text, label) == RegexCapturesFrom(text, 1, label)

(* `for pattern in patterns`, from pattern p on: the first pattern with a  *)
(* match returns the parse of its capture.                                 *)
RECURSIVE CpuPatternLoop(_, _)
CpuPatternLoop(text, p) ==
    IF p > Len(CpuPatterns) THEN Err
    ELSE IF RegexCaptures(text, CpuPatterns[p]).some
         THEN ParseF32(RegexCaptures(text, CpuPatterns[p]).str)
    ELSE CpuPatternLoop(text, p + 1)

(* A reader that takes the match that comes first in the text, whichever   *)
(* pattern it belongs to.                                                  *)
RECURSIVE CpuLeftmostAnyPattern(_, _)
CpuLeftmostAnyPattern(text, i) ==
    IF i > Len(text) THEN Err
    ELSE IF \E p \in 1..Len(CpuPatterns) : RegexMatchAt(text, i, CpuPatterns[p]).some
         THEN ParseF32(RegexMatchAt(text, i,
                  CpuPatterns[CHOOSE p \in 1..Len(CpuPatterns) :
                                  RegexMatchAt(text, i, CpuPatterns[p]).some]).str)
    ELSE CpuLeftmostAnyPattern(text, i + 1)

CpuSensor_get_temperature_leftmost(env) ==
    LET output == env["sensors"]
    IN  IF output.status = "missing" THEN Err
        ELSE IF output.status # "success" THEN Err
        ELSE CpuLeftmostAnyPattern(output.out, 1)

(* sensor/cpu_sensor.rs 10-59: CpuSensor::get_temperature                  *)
CpuSensor_get_temperature(env) ==
    LET output == env["sensors"]
    IN  IF output.status = "missing" THEN Err
        ELSE IF output.status # "success" THEN Err
        ELSE CpuPatternLoop(output.out, 1)

(* cpu_sensor.rs 9-34: get_cpu_temperature (legacy module); the exit       *)
(* status of the command is not looked at.                                 *)
get_cpu_temperature(env) ==
    LET out == env["sensors"]
    IN  IF out.status = "missing" THEN Err
        ELSE CpuPatternLoop(out.out, 1)

---------------------------------------------------------------------------
(* CPU harness: the sensors command is missing, fails or succeeds, having  *)
(* printed up to MaxLines lines of the pool in any order.                  *)
MaxLines == 3

LinePackage ==
    <<"P", "a", "c", "k", "a", "g", "e", " ", "i", "d", " ", "0", ":", " ",
      " ", "+", "4", "5", ".", "0", "°", "C">>
LineTdie ==
    <<"T", "d", "i", "e", ":", " ", "+", "5", "2", ".", "3", "°", "C">>
LineTctl ==
    <<"T", "c", "t", "l", ":", " ", "+", "6", "2", ".", "5", "°", "C">>
LineTemp1 ==
    <<"t", "e", "m", "p", "1", ":", " ", "+", "4", "0", ".", "0", "°", "C">>
LineCore ==
    <<"C", "o", "r", "e", " ", "0", ":", " ", "+", "4", "4", "°", "C">>
LineBareLabel ==
    <<"t", "e", "m", "p", "1", ":">>
LineBareValue ==
    <<" ", " ", "+", "3", "8", "°", "C">>

CpuLines ==
    {LinePackage, LineTdie, LineTctl, LineTemp1, LineCore, LineBareLabel, LineBareValue}

(* The lines, each ended by "\n".                                          *)
RECURSIVE JoinLines(_)
JoinLines(ls) ==
    IF ls = <<>> THEN <<>> ELSE Head(ls) \o <<"\n">> \o JoinLines(Tail(ls))

CpuTexts == {JoinLines(ls) : ls \in UNION {[1..n -> CpuLines] : n \in 0..MaxLines}}

Missing == [status |-> "missing", out |-> <<>>]

InitCpu ==
    /\ \E sens \in Outputs(CpuTexts) :
            tools = [t \in {"nvidia-smi", "amd-smi", "rocm-smi", "sensors"} |->
                        IF t = "sensors" THEN sens ELSE Missing]
    /\ cpu_res = NoCpu
    /\ gpu_res = NoGpu
    /\ enc_t = NaN
    /\ enc_res = NoEnc
    /\ num_s = <<>>
    /\ num_res = NoNum
    /\ PipelineIdle
    /\ QueriesIdle

CpuSensorGetTemperature ==
    /\ cpu_res.fn = "none"
    /\ LET r == CpuSensor_get_temperature(tools)
       IN  cpu_res' = [fn |-> "CpuSensor::get_temperature", ok |-> r.ok, val |-> r.val]
    /\ UNCHANGED <<enc_t, enc_res, tools, gpu_res, num_s, num_res>>
    /\ UNCHANGED <<pipeline, queryVars>>

GetCpuTemperature ==
    /\ cpu_res.fn = "none"
    /\ LET r == get_cpu_temperature(tools)
       IN  cpu_res' = [fn |-> "get_cpu_temperature", ok |-> r.ok, val |-> r.val]
    /\ UNCHANGED <<enc_t, enc_res, tools, gpu_res, num_s, num_res>>
    /\ UNCHANGED <<pipeline, queryVars>>

NextCpu == CpuSensorGetTemperature \/ GetCpuTemperature

SpecCpu == InitCpu /\ [][NextCpu]_vars

---------------------------------------------------------------------------
(* Configuration.  A Config is the record [unit, interval, high_threshold, *)
(* low_threshold, alerts, sensor] of main.rs 29-54; the Config of          *)
(* config.rs 102-109 is held in the same record (temperature_unit,         *)
(* update_interval, alerts_enabled and sensor_type are its names for       *)
(* unit, interval, alerts and sensor).                                     *)

(* main.rs 56-74: impl Default for Config                                  *)
Config_default ==
    [unit |-> "c", interval |-> 1, high_threshold |-> Degrees(80),
     low_threshold |-> Degrees(20), alerts |-> FALSE, sensor |-> "cpu"]

(* x <= y on f32: false when either side is NaN.                           *)
F32Le(x, y) == F32Lt(x, y) \/ (x.k # "nan" /\ x = y)

(* config.rs 19-28: TemperatureUnit::from_char                             *)
TemperatureUnit_from_char(c) ==
    IF LowerChar(c) = "c" THEN [ok |-> TRUE, unit |-> "Celsius"]
    ELSE IF LowerChar(c) = "f" THEN [ok |-> TRUE, unit |-> "Fahrenheit"]
    ELSE [ok |-> FALSE, unit |-> ""]

(* config.rs 46-52: SensorType::from_str                                   *)
SensorType_from_str(str) ==
    IF ToLowercase(str) = <<"c", "p", "u">> THEN [ok |-> TRUE, sensor |-> "Cpu"]
    ELSE IF ToLowercase(str) = <<"g", "p", "u">> THEN [ok |-> TRUE, sensor |-> "Gpu"]
    ELSE [ok |-> FALSE, sensor |-> ""]

(* config.rs 126-135: Config::from_args                                    *)
Config_from_args(args) ==
    LET u == TemperatureUnit_from_char(args.unit)
        st == SensorType_from_str(args.sensor)
    IN  IF ~u.ok THEN [ok |-> FALSE, err |-> "Config", config |-> <<>>]
        ELSE IF ~st.ok THEN [ok |-> FALSE, err |-> "InvalidSensorType", config |-> <<>>]
        ELSE [ok |-> TRUE, err |-> "",
              config |-> [unit |-> u.unit, interval |-> args.interval,
                          high_threshold |-> args.high_threshold,
                          low_threshold |-> args.low_threshold,
                          alerts |-> args.alerts, sensor |-> st.sensor]]

(* A validation that lets equal thresholds pass.                           *)
Config_validate_allows_equal(self) ==
    IF F32Lt(self.high_threshold, self.low_threshold)
    THEN [ok |-> FALSE, err |-> "Config", config |-> <<>>]
    ELSE IF self.interval = 0
    THEN [ok |-> FALSE, err |-> "Config", config |-> <<>>]
    ELSE [ok |-> TRUE, err |-> "", config |-> self]

(* config.rs 138-152: Config::validate                                     *)
Config_validate(self) ==
    IF F32Le(self.high_threshold, self.low_threshold)
    THEN [ok |-> FALSE, err |-> "Config", config |-> <<>>]
    ELSE IF self.interval = 0
    THEN [ok |-> FALSE, err |-> "Config", config |-> <<>>]
    ELSE [ok |-> TRUE, err |-> "", config |-> self]

(* main.rs 76-108: load_config.  `file` is what stands at the config path: *)
(* a TOML text that deserializes into a Config ("parsed"), one that does   *)
(* not ("invalid"), a file that cannot be read ("unreadable") or nothing   *)
(* ("absent").  No field of the result is validated.                       *)
load_config(file) ==
    IF file.state = "parsed" THEN file.config ELSE Config_default

(* main.rs 144-156: check_thresholds.  The warn! lines it emits, as a      *)
(* sequence of log entries.                                                *)
ProdEv(op, ok, t, kind, secs) ==
    [op |-> op, ok |-> ok, temp |-> t, kind |-> kind, secs |-> secs]

(* A threshold check that does not look at the alerts flag.                *)
check_thresholds_ignores_flag(t, cfg) ==
    IF F32Lt(cfg.high_threshold, t) THEN <<ProdEv("alert", TRUE, t, "high", 0)>>
    ELSE IF F32Lt(t, cfg.low_threshold) THEN <<ProdEv("alert", TRUE, t, "low", 0)>>
    ELSE <<>>

check_thresholds(t, cfg) ==
    IF ~cfg.alerts THEN <<>>
    ELSE IF F32Lt(cfg.high_threshold, t) THEN <<ProdEv("alert", TRUE, t, "high", 0)>>
    ELSE IF F32Lt(t, cfg.low_threshold) THEN <<ProdEv("alert", TRUE, t, "low", 0)>>
    ELSE <<>>

(* monitor.rs 61-77: TemperatureMonitor::check_thresholds                  *)
TemperatureMonitor_check_thresholds(t, cfg) ==
    IF ~cfg.alerts THEN <<>>
    ELSE IF F32Lt(cfg.high_threshold, t) THEN <<ProdEv("alert", TRUE, t, "high", 0)>>
    ELSE IF F32Lt(t, cfg.low_threshold) THEN <<ProdEv("alert", TRUE, t, "low", 0)>>
    ELSE <<>>

(* main.rs 110-142: get_temperature.  cpu_temp is what sys.cpu_temp()      *)
(* returns; a sensor name other than "cpu" and "system" reads nothing.     *)
get_temperature(cpu_temp, sensor) ==
    IF sensor \in {"cpu", "system"} THEN cpu_temp ELSE Err

(* monitor.rs 114-119: SensorManager::get_temperature                      *)
SensorManager_get_temperature(sensor_type, env) ==
    IF sensor_type = "Cpu" THEN CpuSensor_get_temperature(env)
    ELSE [ok |-> GpuSensor_get_temperature(env).ok,
          val |-> GpuSensor_get_temperature(env).val]

(* sensor/cpu_sensor.rs 62-67: CpuSensor::is_available                     *)
CpuSensor_is_available(env) == env["sensors"].status = "success"

(* sensor/gpu_sensor.rs 163-168: GpuSensor::is_available                   *)
GpuSensor_is_available(env) ==
    \/ try_nvidia_smi(env).ok
    \/ try_amd_smi(env).ok
    \/ try_rocm_smi(env).ok
    \/ try_sensors(env).ok

(* monitor.rs 123-128: SensorManager::is_sensor_available                  *)
SensorManager_is_sensor_available(sensor_type, env) ==
    IF sensor_type = "Cpu" THEN CpuSensor_is_available(env)
    ELSE GpuSensor_is_available(env)

(* A pass in which a reading that raised an alert is not sent.             *)
producer_loop_alert_skips_send(r, cfg, rx_alive) ==
    IF r.ok /\ check_thresholds(r.val, cfg) = <<>>
    THEN [log |-> <<ProdEv("poll", TRUE, r.val, "", 0),
                    ProdEv("send", rx_alive, r.val, "", 0),
                    ProdEv("sleep", TRUE, NoVal, "", cfg.interval)>>,
          out |-> IF rx_alive THEN <<r.val>> ELSE <<>>, pc |-> "poll"]
    ELSE IF r.ok
    THEN [log |-> <<ProdEv("poll", TRUE, r.val, "", 0)>>
                      \o check_thresholds(r.val, cfg)
                      \o <<ProdEv("sleep", TRUE, NoVal, "", cfg.interval)>>,
          out |-> <<>>, pc |-> "poll"]
    ELSE [log |-> <<ProdEv("poll", FALSE, NoVal, "", 0),
                    ProdEv("sleep", TRUE, NoVal, "", cfg.interval)>>,
          out |-> <<>>, pc |-> "poll"]

(* A pass that sends 0.0 when the reading failed.                          *)
producer_loop_sends_zero(r, cfg, rx_alive) ==
    IF r.ok
    THEN [log |-> <<ProdEv("poll", TRUE, r.val, "", 0)>>
                      \o check_thresholds(r.val, cfg)
                      \o <<ProdEv("send", rx_alive, r.val, "", 0),
                           ProdEv("sleep", TRUE, NoVal, "", cfg.interval)>>,
          out |-> <<r.val>>, pc |-> "poll"]
    ELSE [log |-> <<ProdEv("poll", FALSE, NoVal, "", 0),
                    ProdEv("send", rx_alive, Degrees(0), "", 0),
                    ProdEv("sleep", TRUE, NoVal, "", cfg.interval)>>,
          out |-> <<Degrees(0)>>, pc |-> "poll"]

(* A pass that leaves the loop when the reading failed.                    *)
producer_loop_breaks_on_error(r, cfg, rx_alive) ==
    IF r.ok
    THEN [log |-> <<ProdEv("poll", TRUE, r.val, "", 0)>>
                      \o check_thresholds(r.val, cfg)
                      \o <<ProdEv("send", rx_alive, r.val, "", 0),
                           ProdEv("sleep", TRUE, NoVal, "", cfg.interval)>>,
          out |-> <<r.val>>, pc |-> "poll"]
    ELSE [log |-> <<ProdEv("poll", FALSE, NoVal, "", 0)>>,
          out |-> <<>>, pc |-> "exited"]

(* A pass that sends the reading before it checks the thresholds.          *)
producer_loop_sends_first(r, cfg, rx_alive) ==
    IF r.ok
    THEN IF rx_alive
         THEN [log |-> <<ProdEv("poll", TRUE, r.val, "", 0),
                         ProdEv("send", TRUE, r.val, "", 0)>>
                           \o check_thresholds(r.val, cfg)
                           \o <<ProdEv("sleep", TRUE, NoVal, "", cfg.interval)>>,
               out |-> <<r.val>>, pc |-> "poll"]
         ELSE [log |-> <<ProdEv("poll", TRUE, r.val, "", 0),
                         ProdEv("send", FALSE, r.val, "", 0)>>,
               out |-> <<>>, pc |-> "exited"]
    ELSE [log |-> <<ProdEv("poll", FALSE, NoVal, "", 0),
                    ProdEv("sleep", TRUE, NoVal, "", cfg.interval)>>,
          out |-> <<>>, pc |-> "poll"]

(* main.rs 269-279: one pass of the loop of the polling thread, given the  *)
(* reading r and whether the receiver still exists: what it does in order  *)
(* (the sleep that ends the pass included), what it puts on the channel    *)
(* and where it goes next.                                                 *)
producer_loop(r, cfg, rx_alive) ==
    IF r.ok
    THEN IF rx_alive
         THEN [log |-> <<ProdEv("poll", TRUE, r.val, "", 0)>>
                           \o check_thresholds(r.val, cfg)
                           \o <<ProdEv("send", TRUE, r.val, "", 0),
                                ProdEv("sleep", TRUE, NoVal, "", cfg.interval)>>,
               out |-> <<r.val>>, pc |-> "poll"]
         ELSE [log |-> <<ProdEv("poll", TRUE, r.val, "", 0)>>
                           \o check_thresholds(r.val, cfg)
                           \o <<ProdEv("send", FALSE, r.val, "", 0)>>,
               out |-> <<>>, pc |-> "exited"]
    ELSE [log |-> <<ProdEv("poll", FALSE, NoVal, "", 0),
                    ProdEv("sleep", TRUE, NoVal, "", cfg.interval)>>,
          out |-> <<>>, pc |-> "poll"]

(* monitor.rs 37-54: the same pass in TemperatureMonitor::start_monitoring *)
start_monitoring_loop(r, cfg, rx_alive) ==
    IF r.ok
    THEN IF rx_alive
         THEN [log |-> <<ProdEv("poll", TRUE, r.val, "", 0)>>
                           \o TemperatureMonitor_check_thresholds(r.val, cfg)
                           \o <<ProdEv("send", TRUE, r.val, "", 0),
                                ProdEv("sleep", TRUE, NoVal, "", cfg.interval)>>,
               out |-> <<r.val>>, pc |-> "poll"]
         ELSE [log |-> <<ProdEv("poll", TRUE, r.val, "", 0)>>
                           \o TemperatureMonitor_check_thresholds(r.val, cfg)
                           \o <<ProdEv("send", FALSE, r.val, "", 0)>>,
               out |-> <<>>, pc |-> "exited"]
    ELSE [log |-> <<ProdEv("poll", FALSE, NoVal, "", 0),
                    ProdEv("sleep", TRUE, NoVal, "", cfg.interval)>>,
          out |-> <<>>, pc |-> "poll"]

---------------------------------------------------------------------------
(* The HID side.  A device_info of api.device_list() is [vendor_id,        *)
(* product_id, path, opens], `opens` telling whether open_path succeeds.   *)
VID == 6700
PID == 17229

(* main.rs 204-225: connect_device, the loop from entry i on               *)
RECURSIVE connect_device_from(_, _)
connect_device_from(device_list, i) ==
    IF i > Len(device_list) THEN [ok |-> FALSE, path |-> ""]
    ELSE IF /\ device_list[i].vendor_id = VID
            /\ device_list[i].product_id = PID
            /\ device_list[i].opens
         THEN [ok |-> TRUE, path |-> device_list[i].path]
    ELSE connect_device_from(device_list, i + 1)

connect_device(device_list) == connect_device_from(device_list, 1)

(* main.rs 196-202: send_temp.  `written` is what dev.write returns: Ok    *)
(* with a byte count, or an error.  The write is logged with the handle,   *)
(* the length and the digit bytes of the report handed to it, and the      *)
(* number of bytes written.                                                *)
NoEv ==
    [op |-> "", ok |-> FALSE, temp |-> NoVal, handle |-> NoHandle, len |-> 0,
     digits |-> <<>>, wrote |-> 0, secs |-> 0, code |-> 0]

send_temp(dev, temp_celsius, unit, written) ==
    LET data == build_report(temp_celsius, unit)
    IN  [ok |-> written.ok,
         log |-> <<[NoEv EXCEPT !.op = "write", !.ok = written.ok,
                                !.temp = temp_celsius, !.handle = dev,
                                !.len = Cardinality(DOMAIN data),
                                !.digits = <<data[3], data[4], data[5]>>,
                                !.wrote = written.bytes]>>]

(* main.rs 284-309: where the consumer loop goes after send_temp, after    *)
(* the connect_device of the Err branch, and after the sleep.              *)
after_send_temp(ok) == IF ok THEN "recv" ELSE "reconnect"
after_reconnect(ok) == IF ok THEN "recv" ELSE "backoff"
(* A loop that goes back to the write of the same reading after the sleep. *)
after_backoff_retries == "send_temp"

after_backoff == "recv"

(* main.rs 305: thread::sleep(Duration::from_secs(5))                      *)
BackoffSecs == 5

---------------------------------------------------------------------------
(* Monitoring harness.  Either main.rs runs (main, with the config file it *)
(* finds), or a caller constructs a TemperatureMonitor, calls              *)
(* start_monitoring and receives from the channel it returns.              *)
MaxPolls == 3

Readings == {Degrees(10), Degrees(70), Degrees(80), Degrees(90)}

(* What sys.cpu_temp() returns (systemstat).                               *)
SysReadings == {Ok(t) : t \in Readings} \cup {Err}

LegacyConfigs ==
    {c \in [unit : {"c", "f"}, interval : {1},
            high_threshold : {Degrees(80), Degrees(20)},
            low_threshold : {Degrees(20), Degrees(80)},
            alerts : BOOLEAN, sensor : {"cpu", "gpu"}] :
        c.high_threshold # c.low_threshold}

ConfigFiles ==
    {[state |-> "parsed", config |-> c] : c \in LegacyConfigs}
        \cup {[state |-> s, config |-> <<>>] : s \in {"invalid", "unreadable", "absent"}}

MonitorConfigs ==
    [unit : TemperatureUnit, interval : {1}, high_threshold : {Degrees(80)},
     low_threshold : {Degrees(20)}, alerts : BOOLEAN, sensor : {"Cpu", "Gpu"}]

(* The external commands as one poll of the monitor finds them.            *)
DigitChars == <<"0", "1", "2", "3", "4", "5", "6", "7", "8", "9">>
TwoDigits(t) ==
    <<DigitChars[((t.v \div FixedDen) \div 10) + 1],
      DigitChars[((t.v \div FixedDen) % 10) + 1]>>

AllMissing == [t \in {"nvidia-smi", "amd-smi", "rocm-smi", "sensors"} |-> Missing]

CpuEnv(t) ==
    [AllMissing EXCEPT !["sensors"] =
        [status |-> "success",
         out |-> LabelTemp1 \o <<" ", "+">> \o TwoDigits(t) \o <<".", "0", "°", "C", "\n">>]]

GpuEnv(t) ==
    [AllMissing EXCEPT !["nvidia-smi"] = [status |-> "success", out |-> NvOutNA],
                       !["amd-smi"] =
        [status |-> "success",
         out |-> <<"e", "d", "g", "e", ":", " ">> \o TwoDigits(t) \o <<"\n">>]]

PollEnvs(sensor_type) ==
    IF sensor_type = "Cpu"
    THEN {CpuEnv(t) : t \in Readings}
            \cup {AllMissing,
                  [AllMissing EXCEPT !["sensors"] = [status |-> "failed", out |-> <<>>]]}
    ELSE {GpuEnv(t) : t \in Readings}
            \cup {AllMissing,
                  [AllMissing EXCEPT !["sensors"] =
                      [status |-> "success", out |-> SensOutCpuOnly]]}

(* What api.device_list() returns at one scan.                             *)
DevOther == [vendor_id |-> VID, product_id |-> 1, path |-> "/dev/hidraw0", opens |-> TRUE]
DevBusy == [vendor_id |-> VID, product_id |-> PID, path |-> "/dev/hidraw1", opens |-> FALSE]
DevGood == [vendor_id |-> VID, product_id |-> PID, path |-> "/dev/hidraw2", opens |-> TRUE]

DeviceLists == {<<>>, <<DevOther>>, <<DevBusy>>, <<DevGood>>, <<DevOther, DevBusy, DevGood>>}

(* What dev.write(&data) returns.                                          *)
WriteOutcomes ==
    {[ok |-> TRUE, bytes |-> REPORT_LENGTH], [ok |-> TRUE, bytes |-> 8],
     [ok |-> FALSE, bytes |-> 0]}

Polls == Cardinality({i \in 1..Len(prod_log) : prod_log[i].op = "poll"})
Opens == Cardinality({i \in 1..Len(cons_log) :
                         cons_log[i].op = "connect_device" /\ cons_log[i].ok})

(* The receiver exists: main is inside `for temp in rx`, or the caller of  *)
(* start_monitoring still holds it.                                        *)
RxAlive == main_pc \in {"recv", "send_temp", "reconnect", "backoff", "holding_rx"}

SensorsIdle ==
    /\ enc_t = NaN
    /\ enc_res = NoEnc
    /\ gpu_res = NoGpu
    /\ cpu_res = NoCpu
    /\ num_s = <<>>
    /\ num_res = NoNum

InitMonitor ==
    /\ \/ /\ program = "main.rs"
          /\ \E file \in ConfigFiles : config = load_config(file)
          /\ main_pc = "HidApi::new"
       \/ /\ program = "monitor.rs"
          /\ config \in MonitorConfigs
          /\ main_pc = "start_monitoring"
    /\ prod_pc = "unspawned"
    /\ chan = <<>>
    /\ temp = NoVal
    /\ device = NoHandle
    /\ prod_log = <<>>
    /\ cons_log = <<>>
    /\ dm = NoManager
    /\ dm_log = <<>>
    /\ tools = NoTools
    /\ SensorsIdle
    /\ QueriesIdle

sensorVars == <<enc_t, enc_res, gpu_res, cpu_res, num_s, num_res>>

(* main.rs 251, 312-315: HidApi::new(); its failure ends the process.      *)
HidApiNew ==
    /\ program = "main.rs"
    /\ main_pc = "HidApi::new"
    /\ \E ok \in BOOLEAN :
         IF ok
         THEN /\ main_pc' = "connect_device"
              /\ cons_log' = Append(cons_log, [NoEv EXCEPT !.op = "HidApi::new", !.ok = TRUE])
         ELSE /\ main_pc' = "exit"
              /\ cons_log' = cons_log \o
                    <<[NoEv EXCEPT !.op = "HidApi::new"],
                      [NoEv EXCEPT !.op = "process::exit", !.code = 1]>>
    /\ UNCHANGED <<program, config, prod_pc, chan, temp, device, prod_log, dm, dm_log,
                   tools, sensorVars, queryVars>>

(* A startup that goes on to monitoring without a device when none opens.  *)
StartupConnectGoesOn ==
    /\ program = "main.rs"
    /\ main_pc = "connect_device"
    /\ \E device_list \in DeviceLists :
         LET r == connect_device(device_list)
             dev == [open |-> r.ok, path |-> r.path, n |-> IF r.ok THEN Opens + 1 ELSE 0]
         IN  /\ device' = dev
             /\ main_pc' = "recv"
             /\ prod_pc' = "poll"
             /\ cons_log' = Append(cons_log,
                    [NoEv EXCEPT !.op = "connect_device", !.ok = r.ok, !.handle = dev])
    /\ UNCHANGED <<program, config, chan, temp, prod_log, dm, dm_log, tools, sensorVars, queryVars>>

(* main.rs 253-280: connect_device at startup; on success the channel is   *)
(* created and the polling thread spawned, on failure the process ends.    *)
StartupConnect ==
    /\ program = "main.rs"
    /\ main_pc = "connect_device"
    /\ \E device_list \in DeviceLists :
         LET r == connect_device(device_list)
             dev == [open |-> TRUE, path |-> r.path, n |-> Opens + 1]
         IN  IF r.ok
             THEN /\ device' = dev
                  /\ main_pc' = "recv"
                  /\ prod_pc' = "poll"
                  /\ cons_log' = Append(cons_log,
                        [NoEv EXCEPT !.op = "connect_device", !.ok = TRUE, !.handle = dev])
             ELSE /\ device' = device
                  /\ main_pc' = "exit"
                  /\ prod_pc' = prod_pc
                  /\ cons_log' = cons_log \o
                        <<[NoEv EXCEPT !.op = "connect_device"],
                          [NoEv EXCEPT !.op = "process::exit", !.code = 1]>>
    /\ UNCHANGED <<program, config, chan, temp, prod_log, dm, dm_log, tools, sensorVars, queryVars>>

(* A polling thread on a channel of capacity one: it waits while a         *)
(* reading is queued.                                                      *)
ProducerPollWaits ==
    /\ program = "main.rs"
    /\ prod_pc = "poll"
    /\ Polls < MaxPolls
    /\ chan = <<>>
    /\ \E cpu_temp \in SysReadings :
         LET step == producer_loop(get_temperature(cpu_temp, config.sensor),
                                   config, RxAlive)
         IN  /\ prod_log' = prod_log \o step.log
             /\ chan' = chan \o step.out
             /\ prod_pc' = step.pc
    /\ UNCHANGED <<program, config, main_pc, temp, device, cons_log, dm, dm_log,
                   tools, sensorVars, queryVars>>

(* main.rs 267-279: the polling thread reads the sensor, checks the        *)
(* thresholds, sends the reading and sleeps.                               *)
ProducerPoll ==
    /\ program = "main.rs"
    /\ prod_pc = "poll"
    /\ Polls < MaxPolls
    /\ \E cpu_temp \in SysReadings :
         LET step == producer_loop(get_temperature(cpu_temp, config.sensor),
                                   config, RxAlive)
         IN  /\ prod_log' = prod_log \o step.log
             /\ chan' = chan \o step.out
             /\ prod_pc' = step.pc
    /\ UNCHANGED <<program, config, main_pc, temp, device, cons_log, dm, dm_log,
                   tools, sensorVars, queryVars>>

(* A receive loop that ends as soon as it finds the channel empty.         *)
ReceiveEndsWhenEmpty ==
    /\ program = "main.rs"
    /\ main_pc = "recv"
    /\ IF chan # <<>>
       THEN /\ temp' = Head(chan)
            /\ chan' = Tail(chan)
            /\ main_pc' = "send_temp"
            /\ cons_log' = Append(cons_log, [NoEv EXCEPT !.op = "recv", !.ok = TRUE,
                                                         !.temp = Head(chan)])
       ELSE /\ main_pc' = "returned"
            /\ UNCHANGED <<temp, chan, cons_log>>
    /\ UNCHANGED <<program, config, prod_pc, device, prod_log, dm, dm_log, tools,
                   sensorVars, queryVars>>

(* A receive that takes the newest queued reading instead of the oldest.   *)
ReceiveNewest ==
    /\ program = "main.rs"
    /\ main_pc = "recv"
    /\ chan # <<>>
    /\ temp' = chan[Len(chan)]
    /\ chan' = SubSeq(chan, 1, Len(chan) - 1)
    /\ main_pc' = "send_temp"
    /\ cons_log' = Append(cons_log, [NoEv EXCEPT !.op = "recv", !.ok = TRUE,
                                                 !.temp = chan[Len(chan)]])
    /\ UNCHANGED <<program, config, prod_pc, device, prod_log, dm, dm_log, tools,
                   sensorVars, queryVars>>

(* main.rs 283: `for temp in rx` takes the next reading; it blocks while   *)
(* the channel is empty and the sender exists, and ends when the channel   *)
(* is empty and the sender is gone.                                        *)
Receive ==
    /\ program = "main.rs"
    /\ main_pc = "recv"
    /\ chan # <<>> \/ prod_pc = "exited"
    /\ IF chan # <<>>
       THEN /\ temp' = Head(chan)
            /\ chan' = Tail(chan)
            /\ main_pc' = "send_temp"
            /\ cons_log' = Append(cons_log, [NoEv EXCEPT !.op = "recv", !.ok = TRUE,
                                                         !.temp = Head(chan)])
       ELSE /\ main_pc' = "returned"
            /\ UNCHANGED <<temp, chan, cons_log>>
    /\ UNCHANGED <<program, config, prod_pc, device, prod_log, dm, dm_log, tools,
                   sensorVars, queryVars>>

(* main.rs 284-296: send_temp(&device, temp, config.unit) and its match    *)
SendTemp ==
    /\ program = "main.rs"
    /\ main_pc = "send_temp"
    /\ \E written \in WriteOutcomes :
         LET r == send_temp(device, temp, config.unit, written)
         IN  /\ cons_log' = cons_log \o r.log
             /\ main_pc' = after_send_temp(r.ok)
    /\ UNCHANGED <<program, config, prod_pc, chan, temp, device, prod_log, dm, dm_log,
                   tools, sensorVars, queryVars>>

(* A reconnection that does not store the handle it opened.                *)
ReconnectKeepsOldHandle ==
    /\ program = "main.rs"
    /\ main_pc = "reconnect"
    /\ \E device_list \in DeviceLists :
         LET r == connect_device(device_list)
             dev == [open |-> TRUE, path |-> r.path, n |-> Opens + 1]
         IN  /\ device' = device
             /\ main_pc' = after_reconnect(r.ok)
             /\ cons_log' = Append(cons_log,
                    [NoEv EXCEPT !.op = "connect_device", !.ok = r.ok,
                                 !.handle = IF r.ok THEN dev ELSE NoHandle])
    /\ UNCHANGED <<program, config, prod_pc, chan, temp, prod_log, dm, dm_log, tools,
                   sensorVars, queryVars>>

(* main.rs 298-307: connect_device in the Err branch                       *)
Reconnect ==
    /\ program = "main.rs"
    /\ main_pc = "reconnect"
    /\ \E device_list \in DeviceLists :
         LET r == connect_device(device_list)
             dev == [open |-> TRUE, path |-> r.path, n |-> Opens + 1]
         IN  /\ device' = IF r.ok THEN dev ELSE device
             /\ main_pc' = after_reconnect(r.ok)
             /\ cons_log' = Append(cons_log,
                    [NoEv EXCEPT !.op = "connect_device", !.ok = r.ok,
                                 !.handle = IF r.ok THEN dev ELSE NoHandle])
    /\ UNCHANGED <<program, config, prod_pc, chan, temp, prod_log, dm, dm_log, tools,
                   sensorVars, queryVars>>

(* main.rs 305: the sleep after a failed reconnection                      *)
Backoff ==
    /\ program = "main.rs"
    /\ main_pc = "backoff"
    /\ cons_log' = Append(cons_log, [NoEv EXCEPT !.op = "sleep", !.ok = TRUE,
                                                 !.secs = BackoffSecs])
    /\ main_pc' = after_backoff
    /\ UNCHANGED <<program, config, prod_pc, chan, temp, device, prod_log, dm, dm_log,
                   tools, sensorVars, queryVars>>

(* monitor.rs 24-29, 57: start_monitoring creates the channel, spawns the  *)
(* thread and returns the receiver.                                        *)
StartMonitoring ==
    /\ program = "monitor.rs"
    /\ main_pc = "start_monitoring"
    /\ main_pc' = "holding_rx"
    /\ prod_pc' = "poll"
    /\ UNCHANGED <<program, config, chan, temp, device, prod_log, cons_log, dm, dm_log,
                   tools, sensorVars, queryVars>>

(* monitor.rs 37-54: one pass of the loop of the monitoring thread         *)
MonitorPoll ==
    /\ program = "monitor.rs"
    /\ prod_pc = "poll"
    /\ Polls < MaxPolls
    /\ \E env \in PollEnvs(config.sensor) :
         LET step == start_monitoring_loop(
                         SensorManager_get_temperature(config.sensor, env),
                         config, RxAlive)
         IN  /\ tools' = env
             /\ prod_log' = prod_log \o step.log
             /\ chan' = chan \o step.out
             /\ prod_pc' = step.pc
    /\ UNCHANGED <<program, config, main_pc, temp, device, cons_log, dm, dm_log,
                   sensorVars, queryVars>>

(* The holder of the Receiver returned by start_monitoring takes the next  *)
(* reading (monitor.rs 25, 57).                                            *)
ReceiveReading ==
    /\ program = "monitor.rs"
    /\ main_pc = "holding_rx"
    /\ chan # <<>>
    /\ temp' = Head(chan)
    /\ chan' = Tail(chan)
    /\ cons_log' = Append(cons_log, [NoEv EXCEPT !.op = "recv", !.ok = TRUE,
                                                 !.temp = Head(chan)])
    /\ UNCHANGED <<program, config, main_pc, prod_pc, device, prod_log, dm, dm_log,
                   tools, sensorVars, queryVars>>

(* The holder drops the Receiver; what was queued is lost with it, and the *)
(* next tx.send fails (monitor.rs 42-45).                                  *)
DropReceiver ==
    /\ program = "monitor.rs"
    /\ main_pc = "holding_rx"
    /\ main_pc' = "dropped"
    /\ chan' = <<>>
    /\ UNCHANGED <<program, config, prod_pc, temp, device, prod_log, cons_log, dm,
                   dm_log, tools, sensorVars, queryVars>>

NextMonitor ==
    \/ HidApiNew
    \/ StartupConnect
    \/ ProducerPoll
    \/ Receive
    \/ SendTemp
    \/ Reconnect
    \/ Backoff
    \/ StartMonitoring
    \/ MonitorPoll
    \/ ReceiveReading
    \/ DropReceiver

SpecMonitor == InitMonitor /\ [][NextMonitor]_vars

(* main.rs alone, with its two threads scheduled fairly: the main thread   *)
(* takes the step it stands at, and so does the polling thread.            *)
InitLegacy == InitMonitor /\ program = "main.rs"

MainThread ==
    \/ HidApiNew
    \/ StartupConnect
    \/ Receive
    \/ SendTemp
    \/ Reconnect
    \/ Backoff

NextLegacy == MainThread \/ ProducerPoll

SpecLegacyFair ==
    /\ InitLegacy
    /\ [][NextLegacy]_vars
    /\ WF_vars(MainThread)
    /\ WF_vars(ProducerPoll)

---------------------------------------------------------------------------
(* device.rs 7-90: DeviceManager.  `self` is [api, device], device being   *)
(* the Option<HidDevice> (NoHandle for None).  Each method returns the     *)
(* manager after the call, the result and the entry it leaves in dm_log.   *)
(* An entry records, besides the call and its result, what the call did    *)
(* to the host: the device list it scanned, the paths it handed to         *)
(* open_path, and what device.write returned ("" when it was not called).  *)
DmEv ==
    [op |-> "", ok |-> FALSE, err |-> "", temp |-> NoVal, handle |-> NoHandle,
     scan |-> <<>>, tried |-> <<>>, write |-> "", len |-> 0, wrote |-> 0]

(* device.rs 14-17: DeviceManager::new                                     *)
DeviceManager_new(hid_ok) ==
    [self |-> IF hid_ok THEN [api |-> TRUE, device |-> NoHandle] ELSE NoManager,
     ok |-> hid_ok,
     log |-> <<[DmEv EXCEPT !.op = "new", !.ok = hid_ok,
                            !.err = IF hid_ok THEN "" ELSE "HidApi"]>>]

(* A scan that gives up at the first candidate that does not open.         *)
RECURSIVE DeviceManager_connect_from_stops_at_failure(_, _, _)
DeviceManager_connect_from_stops_at_failure(device_list, i, tried) ==
    IF i > Len(device_list) THEN [ok |-> FALSE, path |-> "", tried |-> tried]
    ELSE IF device_list[i].vendor_id = VID /\ device_list[i].product_id = PID
         THEN [ok |-> device_list[i].opens,
               path |-> IF device_list[i].opens THEN device_list[i].path ELSE "",
               tried |-> Append(tried, device_list[i].path)]
    ELSE DeviceManager_connect_from_stops_at_failure(device_list, i + 1, tried)

(* device.rs 23-40: the loop of connect over api.device_list(), from entry *)
(* i on; `tried` lists the paths handed to open_path.                      *)
RECURSIVE DeviceManager_connect_from(_, _, _)
DeviceManager_connect_from(device_list, i, tried) ==
    IF i > Len(device_list) THEN [ok |-> FALSE, path |-> "", tried |-> tried]
    ELSE IF device_list[i].vendor_id = VID /\ device_list[i].product_id = PID
         THEN IF device_list[i].opens
              THEN [ok |-> TRUE, path |-> device_list[i].path,
                    tried |-> Append(tried, device_list[i].path)]
              ELSE DeviceManager_connect_from(device_list, i + 1,
                                              Append(tried, device_list[i].path))
    ELSE DeviceManager_connect_from(device_list, i + 1, tried)

(* device.rs 20-45: DeviceManager::connect; n numbers the handle opened.   *)
DeviceManager_connect(self, device_list, n) ==
    LET r == DeviceManager_connect_from(device_list, 1, <<>>)
        dev == [open |-> TRUE, path |-> r.path, n |-> n]
    IN  [self |-> IF r.ok THEN [self EXCEPT !.device = dev] ELSE self,
         ok |-> r.ok,
         log |-> <<[DmEv EXCEPT !.op = "connect", !.ok = r.ok,
                                !.err = IF r.ok THEN "" ELSE "Device",
                                !.handle = IF r.ok THEN dev ELSE NoHandle,
                                !.scan = device_list,
                                !.tried = r.tried]>>]

(* A send that takes a short write for a failure.                          *)
DeviceManager_send_temperature_short_fails(self, temp_celsius, unit, written) ==
    LET built == build_temperature_report(temp_celsius, unit)
        ok == written.ok /\ written.bytes = REPORT_LENGTH
    IN  IF ~self.device.open
        THEN [self |-> self, ok |-> FALSE,
              log |-> <<[DmEv EXCEPT !.op = "send_temperature", !.err = "Device",
                                     !.temp = temp_celsius]>>]
        ELSE [self |-> self, ok |-> ok,
              log |-> <<[DmEv EXCEPT !.op = "send_temperature", !.ok = ok,
                                     !.err = IF ok THEN "" ELSE "Device",
                                     !.temp = temp_celsius,
                                     !.handle = self.device,
                                     !.write = IF written.ok THEN "Ok" ELSE "Err",
                                     !.len = Cardinality(DOMAIN built.report),
                                     !.wrote = written.bytes]>>]

(* device.rs 48-76: DeviceManager::send_temperature; `written` is what     *)
(* device.write(&report) returns.                                          *)
DeviceManager_send_temperature(self, temp_celsius, unit, written) ==
    LET built == build_temperature_report(temp_celsius, unit)
    IN  IF ~self.device.open
        THEN [self |-> self, ok |-> FALSE,
              log |-> <<[DmEv EXCEPT !.op = "send_temperature", !.err = "Device",
                                     !.temp = temp_celsius]>>]
        ELSE IF ~built.ok
        THEN [self |-> self, ok |-> FALSE,
              log |-> <<[DmEv EXCEPT !.op = "send_temperature", !.err = "Report",
                                     !.temp = temp_celsius]>>]
        ELSE [self |-> self, ok |-> written.ok,
              log |-> <<[DmEv EXCEPT !.op = "send_temperature", !.ok = written.ok,
                                     !.err = IF written.ok THEN "" ELSE "Device",
                                     !.temp = temp_celsius,
                                     !.handle = self.device,
                                     !.write = IF written.ok THEN "Ok" ELSE "Err",
                                     !.len = Cardinality(DOMAIN built.report),
                                     !.wrote = written.bytes]>>]

(* device.rs 80-82: DeviceManager::is_connected                            *)
DeviceManager_is_connected(self) == self.device.open

(* A reconnect that keeps the handle it holds while it scans.              *)
DeviceManager_reconnect_keeps_handle(self, device_list, n) ==
    LET r == DeviceManager_connect(self, device_list, n)
    IN  [self |-> r.self, ok |-> r.ok,
         log |-> <<[r.log[1] EXCEPT !.op = "reconnect"]>>]

(* device.rs 85-89: DeviceManager::reconnect                               *)
DeviceManager_reconnect(self, device_list, n) ==
    LET r == DeviceManager_connect([self EXCEPT !.device = NoHandle], device_list, n)
    IN  [self |-> r.self, ok |-> r.ok,
         log |-> <<[r.log[1] EXCEPT !.op = "reconnect"]>>]

---------------------------------------------------------------------------
(* DeviceManager harness: a manager is constructed, then connect,          *)
(* send_temperature and reconnect are called in any order, up to MaxCalls  *)
(* calls in all.                                                           *)
MaxCalls == 4

SendTemps == {Tenths(255), Degrees(1500)}

(* The device lists the manager meets: those of the monitoring harness,    *)
(* and lists with a second display, and with a device that has the         *)
(* product id of the display under another vendor id.                      *)
DevGood2 == [vendor_id |-> VID, product_id |-> PID, path |-> "/dev/hidraw3", opens |-> TRUE]
DevOtherVendor == [vendor_id |-> 1, product_id |-> PID, path |-> "/dev/hidraw4", opens |-> TRUE]

DmDeviceLists ==
    DeviceLists \cup {<<DevGood2, DevGood>>, <<DevBusy, DevGood2, DevGood>>,
                      <<DevOtherVendor, DevBusy>>, <<DevOtherVendor, DevOther, DevGood>>}

DmOpens ==
    Cardinality({i \in 1..Len(dm_log) :
                    dm_log[i].op \in {"connect", "reconnect"} /\ dm_log[i].ok})

InitDevice ==
    /\ dm = NoManager
    /\ dm_log = <<>>
    /\ program = ""
    /\ config = <<>>
    /\ main_pc = "idle"
    /\ prod_pc = "idle"
    /\ chan = <<>>
    /\ temp = NoVal
    /\ device = NoHandle
    /\ prod_log = <<>>
    /\ cons_log = <<>>
    /\ tools = NoTools
    /\ SensorsIdle
    /\ QueriesIdle

monitorVars ==
    <<program, config, main_pc, prod_pc, chan, temp, device, prod_log, cons_log, tools>>

DeviceManagerNew ==
    /\ dm_log = <<>>
    /\ \E hid_ok \in BOOLEAN :
         LET r == DeviceManager_new(hid_ok)
         IN  dm' = r.self /\ dm_log' = dm_log \o r.log
    /\ UNCHANGED <<monitorVars, sensorVars, queryVars>>

DeviceManagerConnect ==
    /\ dm.api
    /\ Len(dm_log) < MaxCalls
    /\ \E device_list \in DmDeviceLists :
         LET r == DeviceManager_connect(dm, device_list, DmOpens + 1)
         IN  dm' = r.self /\ dm_log' = dm_log \o r.log
    /\ UNCHANGED <<monitorVars, sensorVars, queryVars>>

DeviceManagerSendTemperature ==
    /\ dm.api
    /\ Len(dm_log) < MaxCalls
    /\ \E t \in SendTemps, unit \in TemperatureUnit, written \in WriteOutcomes :
         LET r == DeviceManager_send_temperature(dm, t, unit, written)
         IN  dm' = r.self /\ dm_log' = dm_log \o r.log
    /\ UNCHANGED <<monitorVars, sensorVars, queryVars>>

DeviceManagerReconnect ==
    /\ dm.api
    /\ Len(dm_log) < MaxCalls
    /\ \E device_list \in DmDeviceLists :
         LET r == DeviceManager_reconnect(dm, device_list, DmOpens + 1)
         IN  dm' = r.self /\ dm_log' = dm_log \o r.log
    /\ UNCHANGED <<monitorVars, sensorVars, queryVars>>

NextDevice ==
    \/ DeviceManagerNew
    \/ DeviceManagerConnect
    \/ DeviceManagerSendTemperature
    \/ DeviceManagerReconnect

SpecDevice == InitDevice /\ [][NextDevice]_vars

---------------------------------------------------------------------------
(* Configuration harness: the command line is parsed into a Config         *)
(* (Config::from_args), which is then validated once.                      *)
ArgsSet ==
    [unit : {"c", "F", "x"}, interval : {0, 1, 2},
     high_threshold : {Degrees(20), Degrees(80), NaN, PosInf},
     low_threshold : {Degrees(20), Degrees(80), NaN},
     alerts : BOOLEAN,
     sensor : {<<"c", "p", "u">>, <<"G", "P", "U">>, <<"d", "i", "s", "k">>}]

InitConfig ==
    /\ \E args \in ArgsSet :
          /\ Config_from_args(args).ok
          /\ config = Config_from_args(args).config
    /\ validated = NoValidate
    /\ sensor_info = NoInfo
    /\ program = ""
    /\ main_pc = "idle"
    /\ prod_pc = "idle"
    /\ chan = <<>>
    /\ temp = NoVal
    /\ device = NoHandle
    /\ prod_log = <<>>
    /\ cons_log = <<>>
    /\ dm = NoManager
    /\ dm_log = <<>>
    /\ tools = NoTools
    /\ SensorsIdle

ConfigValidate ==
    /\ validated.fn = "none"
    /\ LET r == Config_validate(config)
       IN  validated' = [fn |-> "validate", ok |-> r.ok, err |-> r.err,
                         config |-> r.config]
    /\ UNCHANGED <<program, config, main_pc, prod_pc, chan, temp, device, prod_log,
                   cons_log, dm, dm_log, tools, sensorVars, sensor_info>>

NextConfig == ConfigValidate

SpecConfig == InitConfig /\ [][NextConfig]_vars

---------------------------------------------------------------------------
(* SensorManager harness: with the external commands as InitGpu finds      *)
(* them, the manager is asked once whether a sensor is available and for   *)
(* its temperature (get_sensor_info and get_temperature, as                *)
(* tests::test_sensor_manager of monitor.rs does).                         *)
InitSensors ==
    /\ \E nv \in Outputs({NvOut45, NvOutNA}),
          amd \in Outputs({AmdOutEdge, AmdOutNoEdge}),
          rocm \in Outputs({RocmOutTemp, RocmOutNone}),
          sens \in Outputs({SensOutEdge, SensOutCpuOnly, SensOutJunction, <<>>}) :
            tools = [t \in {"nvidia-smi", "amd-smi", "rocm-smi", "sensors"} |->
                        CASE t = "nvidia-smi" -> nv
                          [] t = "amd-smi" -> amd
                          [] t = "rocm-smi" -> rocm
                          [] t = "sensors" -> sens]
    /\ sensor_info = NoInfo
    /\ validated = NoValidate
    /\ program = ""
    /\ config = <<>>
    /\ main_pc = "idle"
    /\ prod_pc = "idle"
    /\ chan = <<>>
    /\ temp = NoVal
    /\ device = NoHandle
    /\ prod_log = <<>>
    /\ cons_log = <<>>
    /\ dm = NoManager
    /\ dm_log = <<>>
    /\ SensorsIdle

SensorManagerQuery ==
    /\ sensor_info.kind = "none"
    /\ \E sensor_type \in {"Cpu", "Gpu"} :
         LET r == SensorManager_get_temperature(sensor_type, tools)
         IN  sensor_info' =
                 [kind |-> sensor_type,
                  available |-> SensorManager_is_sensor_available(sensor_type, tools),
                  ok |-> r.ok, val |-> r.val]
    /\ UNCHANGED <<program, config, main_pc, prod_pc, chan, temp, device, prod_log,
                   cons_log, dm, dm_log, tools, sensorVars, validated>>

NextSensors == SensorManagerQuery

SpecSensors == InitSensors /\ [][NextSensors]_vars

---------------------------------------------------------------------------
(* Properties of the report encoders                                       *)
Digits(r) == <<r[3], r[4], r[5]>>
DigitValue(r) == 100 * r[3] + 10 * r[4] + r[5]

(* The integer part of a finite f32 in [0, 999], found by search.          *)
IntegerPart(x) == CHOOSE k \in 0..999 : k * FixedDen <= x.v /\ x.v < (k + 1) * FixedDen

(* C1: every report built by either encoder has exactly 64 bytes, byte 0   *)
(* equal to 0x07 and a single decimal digit at each of offsets 3, 4, 5,    *)
(* for every Celsius input and unit.                                       *)
C1_ReportWellFormed ==
    enc_res.fn # "none" =>
        /\ DOMAIN enc_res.report = 0..63
        /\ Cardinality(DOMAIN enc_res.report) = 64
        /\ enc_res.report[0] = 7
        /\ \A i \in {3, 4, 5} : enc_res.report[i] \in 0..9

C1_Witness ==
    /\ enc_res.fn = "build_temperature_report"
    /\ enc_res.unit = "Fahrenheit"
    /\ F32Lt(Degrees(999), enc_t)

(* C2: build_temperature_report writes at offsets 3, 4, 5 the hundreds,    *)
(* tens and ones digits of trunc(clamp(display, 0, 999)), where display    *)
(* is t for Celsius and t*9/5+32 for Fahrenheit (the clamp acts on the     *)
(* converted value), and leaves every byte other than 0, 3, 4, 5 zero.     *)
C2_Expected ==
    LET display == IF enc_res.unit = "Fahrenheit"
                   THEN CelsiusToFahrenheit(enc_t) ELSE enc_t
    IN  IF F32Lt(display, Degrees(0)) THEN 0
        ELSE IF F32Lt(Degrees(999), display) THEN 999
        ELSE IntegerPart(display)

C2_CanonicalDigits ==
    (enc_res.fn = "build_temperature_report" /\ enc_t.k # "nan") =>
        /\ \A i \in {3, 4, 5} : enc_res.report[i] \in 0..9
        /\ DigitValue(enc_res.report) = C2_Expected
        /\ \A i \in 0..63 : i \notin {0, 3, 4, 5} => enc_res.report[i] = 0
        /\ (enc_t = Tenths(255) /\ enc_res.unit = "Celsius")
               => Digits(enc_res.report) = <<0, 2, 5>>
        /\ (enc_t = Degrees(25) /\ enc_res.unit = "Fahrenheit")
               => Digits(enc_res.report) = <<0, 7, 7>>
        /\ (enc_t = Degrees(-10) /\ enc_res.unit = "Celsius")
               => Digits(enc_res.report) = <<0, 0, 0>>
        /\ (enc_t = Degrees(1500) /\ enc_res.unit = "Celsius")
               => Digits(enc_res.report) = <<9, 9, 9>>

C2_Witness ==
    /\ enc_res.fn = "build_temperature_report"
    /\ enc_res.unit = "Fahrenheit"
    /\ enc_t = Degrees(-10)
    /\ Digits(enc_res.report) = <<0, 1, 4>>

(* C3: build_temperature_report returns Ok for every input and unit; a     *)
(* display value below 0 (negative infinity included) encodes as 000, one  *)
(* above 999 (positive infinity included) as 999, and NaN as a boundary    *)
(* value.                                                                  *)
C3_EncoderNeverFails ==
    enc_res.fn = "build_temperature_report" =>
        LET display == IF enc_res.unit = "Fahrenheit"
                       THEN CelsiusToFahrenheit(enc_t) ELSE enc_t
        IN  /\ enc_res.ok
            /\ F32Lt(display, Degrees(0)) => Digits(enc_res.report) = <<0, 0, 0>>
            /\ F32Lt(Degrees(999), display) => Digits(enc_res.report) = <<9, 9, 9>>
            /\ enc_t = NegInf => Digits(enc_res.report) = <<0, 0, 0>>
            /\ enc_t = PosInf => Digits(enc_res.report) = <<9, 9, 9>>
            /\ enc_t = NaN => Digits(enc_res.report) \in {<<0, 0, 0>>, <<9, 9, 9>>}

C3_Witness ==
    /\ enc_res.fn = "build_temperature_report"
    /\ enc_t = NaN
    /\ enc_res.ok
    /\ Digits(enc_res.report) = <<0, 0, 0>>

(* C4: build_report truncates the Celsius input to an integer and clamps   *)
(* it to [0, 99] before conversion, displays round(c*9/5+32) for unit 'f'  *)
(* or 'F' and c otherwise, never more than 99 (Celsius) or 212             *)
(* (Fahrenheit); bytes 1 and 2 are 0xff and bytes 6..63 are zero.          *)
C4_ExpectedCelsius ==
    CASE enc_t.k = "nan" -> 0
      [] enc_t.k = "inf" -> IF enc_t.v > 0 THEN 99 ELSE 0
      [] enc_t.k = "fin" -> IF enc_t.v < 0 THEN 0
                            ELSE IF enc_t.v >= 100 * FixedDen THEN 99
                            ELSE IntegerPart(enc_t)

C4_LegacyEncoding ==
    enc_res.fn = "build_report" =>
        LET r == enc_res.report
            c == C4_ExpectedCelsius
            shown == DigitValue(r)
            err == 5 * shown - (9 * c + 160)
        IN  /\ r[1] = 255 /\ r[2] = 255
            /\ \A i \in 6..63 : r[i] = 0
            /\ \A i \in {3, 4, 5} : r[i] \in 0..9
            /\ enc_res.unit \in {"f", "F"} =>
                   /\ shown <= 212
                   /\ 2 * err < 5 /\ 2 * err > -5
            /\ enc_res.unit \notin {"f", "F"} => shown = c /\ shown <= 99
            /\ (enc_t = Degrees(150) /\ enc_res.unit = "c") => Digits(r) = <<0, 9, 9>>
            /\ (enc_t = Degrees(-10) /\ enc_res.unit = "c") => Digits(r) = <<0, 0, 0>>

C4_Witness ==
    /\ enc_res.fn = "build_report"
    /\ enc_res.unit = "F"
    /\ enc_t = Degrees(150)
    /\ Digits(enc_res.report) = <<2, 1, 0>>

---------------------------------------------------------------------------
(* Properties of extract_number                                            *)
Min(S) == CHOOSE m \in S : \A n \in S : m <= n
DigitPositions(s) == {i \in 1..Len(s) : IsAsciiDigit(s[i])}
PointCount(s) == Cardinality({i \in 1..Len(s) : s[i] = "."})

(* The run of s from its first digit up to, not including, the first later *)
(* character that is neither a digit nor a decimal point.                  *)
NumericRun(s) ==
    LET first == Min(DigitPositions(s))
        stops == {j \in first..Len(s) : ~IsAsciiDigit(s[j]) /\ s[j] # "."}
        end == IF stops = {} THEN Len(s) + 1 ELSE Min(stops)
    IN  SubSeq(s, first, end - 1)

(* C9: extract_number(s) is None exactly when s holds no ASCII digit;      *)
(* otherwise it is the non-empty run of s that starts at the first digit   *)
(* and ends just before the first character that is neither a digit nor a  *)
(* decimal point.                                                          *)
C9_ExtractNumberRun ==
    num_res.fn # "none" =>
        /\ ~num_res.some <=> DigitPositions(num_s) = {}
        /\ num_res.some =>
               /\ num_res.str # <<>>
               /\ num_res.str[1] = num_s[Min(DigitPositions(num_s))]
               /\ num_res.str = NumericRun(num_s)
        /\ num_s = TestTemperature => num_res = [num_res EXCEPT !.some = TRUE,
                                                     !.str = <<"4", "5", ".", "5">>]
        /\ num_s = Test45C => num_res.str = <<"4", "5">>
        /\ num_s = TestNoNumbers => ~num_res.some
        /\ num_s = <<>> => ~num_res.some

C9_Witness ==
    /\ num_res.fn = "GpuSensor::extract_number"
    /\ num_s = <<".", "x", "1", ".", "%">>
    /\ num_res.some
    /\ num_res.str = <<"1", ".">>

(* C10: the string returned by extract_number holds at most one decimal    *)
(* point, and that point comes after at least one digit.                   *)
C10_AtMostOnePoint ==
    (num_res.fn # "none" /\ num_res.some) =>
        /\ PointCount(num_res.str) <= 1
        /\ num_res.str[1] # "."

---------------------------------------------------------------------------
(* Properties of the GPU fallback chain                                    *)
Canonical == "GpuSensor::get_temperature"

(* Whether the i-th probe of the implementation that was called yields a   *)
(* temperature (Ok, or for the legacy module Some string that parses as a  *)
(* number), and the temperature it yields.                                 *)
ProbeSucceeds(fn, i) ==
    IF fn = Canonical THEN GpuSensor_probe(i, tools).ok
    ELSE legacy_probe(i, tools).some /\ ParseF32(legacy_probe(i, tools).str).ok

ProbeValue(fn, i) ==
    IF fn = Canonical THEN GpuSensor_probe(i, tools).val
    ELSE ParseF32(legacy_probe(i, tools).str).val

(* C5: the probes run in the order nvidia-smi, amd-smi, rocm-smi, sensors; *)
(* a probe runs only if every earlier probe failed; the read returns the   *)
(* value of the first probe that succeeds, and fails if and only if all    *)
(* four probes fail.                                                       *)
C5_FallbackChainOrder ==
    gpu_res.fn # "none" =>
        LET S == {i \in 1..4 : ProbeSucceeds(gpu_res.fn, i)}
        IN  /\ Len(gpu_res.ran) \in 1..4
            /\ gpu_res.ran = SubSeq(ToolNames, 1, Len(gpu_res.ran))
            /\ \A k \in 1..Len(gpu_res.ran) :
                   \A i \in 1..(k - 1) : ~ProbeSucceeds(gpu_res.fn, i)
            /\ ~gpu_res.ok <=> S = {}
            /\ S # {} => gpu_res.val = ProbeValue(gpu_res.fn, Min(S))

(* C7: a probe whose command is missing, exits non-zero or prints output   *)
(* from which no temperature number can be obtained counts as failed, and  *)
(* the first later probe that can succeed yields the reading, in           *)
(* GpuSensor::get_temperature and in the legacy get_gpu_temperature.       *)
C7_FailedProbeAdvances ==
    gpu_res.fn # "none" =>
        \A j \in 1..4 :
            (/\ GpuSensor_probe(j, tools).ok
             /\ \A i \in 1..(j - 1) :
                    \/ tools[ToolNames[i]].status # "success"
                    \/ ~GpuSensor_probe(i, tools).ok)
                => (gpu_res.ok /\ gpu_res.val = GpuSensor_probe(j, tools).val)

---------------------------------------------------------------------------
(* Properties of the CPU read                                              *)
SensorsText == tools["sensors"].out

MatchingPatterns ==
    {p \in 1..4 : \E i \in 1..Len(SensorsText) :
                      RegexMatchAt(SensorsText, i, CpuPatterns[p]).some}

(* C6: when the sensors command has run, the read returns the value        *)
(* captured by the earliest pattern of [Package id 0, Tdie, Tctl, temp1]   *)
(* that matches anywhere in the output, wherever the lines stand, and      *)
(* fails when no pattern matches.                                          *)
C6_CpuPatternPriority ==
    (cpu_res.fn # "none" /\ tools["sensors"].status = "success") =>
        /\ cpu_res.ok <=> MatchingPatterns # {}
        /\ MatchingPatterns # {} =>
               cpu_res.val =
                   ParseF32(RegexCaptures(SensorsText,
                                          CpuPatterns[Min(MatchingPatterns)]).str).val
        /\ SensorsText = JoinLines(<<LineTdie, LinePackage>>) => cpu_res.val = Tenths(450)
        /\ SensorsText = JoinLines(<<LineTemp1, LineTctl, LineCore>>)
               => cpu_res.val = Tenths(625)
        /\ SensorsText = JoinLines(<<LineBareLabel, LineBareValue, LineTemp1>>)
               => cpu_res.val = Degrees(38)
        /\ SensorsText = JoinLines(<<LineCore, LineBareValue, LineBareLabel>>)
               => ~cpu_res.ok

C6_Witness ==
    /\ cpu_res.fn = "CpuSensor::get_temperature"
    /\ tools["sensors"].status = "success"
    /\ SensorsText = JoinLines(<<LineTemp1, LineTdie, LinePackage>>)
    /\ cpu_res.ok
    /\ cpu_res.val = Tenths(450)

(* C8: a CPU read fails whenever the sensors command cannot be executed or *)
(* exits non-zero, whatever it printed, in CpuSensor::get_temperature and  *)
(* in the legacy get_cpu_temperature.                                      *)
C8_FailedCommandFails ==
    (cpu_res.fn # "none" /\ tools["sensors"].status # "success") => ~cpu_res.ok

---------------------------------------------------------------------------
(* Properties of the monitoring loop                                       *)
IsAlert(e) == e.op = "alert"
IsGoodPoll(e) == e.op = "poll" /\ e.ok
IsRecv(e) == e.op = "recv"
IsWrite(e) == e.op = "write"

Temps(log) == [i \in 1..Len(log) |-> log[i].temp]

(* The readings polled, the readings received and the readings written.    *)
Polled == Temps(SelectSeq(prod_log, IsGoodPoll))
Received == Temps(SelectSeq(cons_log, IsRecv))
Written == Temps(SelectSeq(cons_log, IsWrite))

(* The alerts that follow the poll at index i of prod_log, before the      *)
(* reading is sent.                                                        *)
AlertsOf(i) ==
    {j \in (i + 1)..Len(prod_log) :
        \A k \in (i + 1)..j : prod_log[k].op = "alert"}

OutOfRange(t) ==
    F32Lt(config.high_threshold, t) \/ F32Lt(t, config.low_threshold)

(* C11: with alerts disabled in the configuration, the polling thread      *)
(* emits no high alert and no low alert, whatever the readings and the     *)
(* thresholds.                                                             *)
C11_NoAlertWhenDisabled ==
    (program # "" /\ ~config.alerts) =>
        \A i \in 1..Len(prod_log) : prod_log[i].op # "alert"

C11_Witness ==
    /\ program = "main.rs"
    /\ ~config.alerts
    /\ F32Lt(config.high_threshold, config.low_threshold)
    /\ Polled = <<Degrees(90), Degrees(10), Degrees(70)>>

(* C12: with alerts enabled, every reading is classified on its raw        *)
(* Celsius value alone: a high alert follows it if and only if it exceeds  *)
(* high_threshold, a low alert if and only if it is below low_threshold,   *)
(* none when it lies between the thresholds (bounds included), never more  *)
(* than one, and a repeated out-of-range reading is alerted each time.     *)
C12_ThresholdClassification ==
    (program # "" /\ config.alerts) =>
        \A i \in 1..Len(prod_log) :
            IsGoodPoll(prod_log[i]) =>
                LET t == prod_log[i].temp
                    A == AlertsOf(i)
                IN  /\ (\E j \in A : prod_log[j].kind = "high")
                           <=> F32Lt(config.high_threshold, t)
                    /\ (\E j \in A : prod_log[j].kind = "low")
                           <=> F32Lt(t, config.low_threshold)
                    /\ ~OutOfRange(t) => A = {}
                    /\ Cardinality(A) <= 1
                    /\ \A j \in A : prod_log[j].temp = t

IsSent(e) == e.op = "send" /\ e.ok
Sent == Temps(SelectSeq(prod_log, IsSent))

AlertList ==
    [i \in 1..Len(SelectSeq(prod_log, IsAlert)) |->
        <<SelectSeq(prod_log, IsAlert)[i].kind, SelectSeq(prod_log, IsAlert)[i].temp>>]

AllWritesOk ==
    \A i \in 1..Len(cons_log) : cons_log[i].op = "write" => cons_log[i].ok

(* The reading main holds between taking it and handing it to send_temp.   *)
InHand == IF main_pc = "send_temp" THEN <<temp>> ELSE <<>>

(* C13: in main.rs, as long as every write has succeeded, the readings     *)
(* written, the one in hand and those queued are together exactly the      *)
(* readings polled, in order, each written once as the report              *)
(* build_report makes of it; with alerts enabled the alerts are exactly    *)
(* the out-of-range readings, one each, in order.  For the readings 70,    *)
(* 90, 10 with high 80 and low 20: a high alert on 90, a low alert on 10   *)
(* and the reports of 70, 90, 10 in that order.                            *)
C13_EndToEnd ==
    (program = "main.rs" /\ AllWritesOk) =>
        /\ Written \o InHand \o chan = Polled
        /\ \A i \in 1..Len(cons_log) :
               cons_log[i].op = "write" =>
                   /\ cons_log[i].len = 64
                   /\ cons_log[i].digits = Digits(build_report(cons_log[i].temp, config.unit))
        /\ config.alerts =>
               Temps(SelectSeq(prod_log, IsAlert)) = SelectSeq(Polled, OutOfRange)
        /\ (/\ config.alerts
            /\ config.high_threshold = Degrees(80)
            /\ config.low_threshold = Degrees(20)
            /\ Polled = <<Degrees(70), Degrees(90), Degrees(10)>>
            /\ Len(Written) = 3) =>
               /\ AlertList = <<<<"high", Degrees(90)>>, <<"low", Degrees(10)>>>>
               /\ Written = <<Degrees(70), Degrees(90), Degrees(10)>>
               /\ config.unit = "c" =>
                      [i \in 1..3 |-> SelectSeq(cons_log, IsWrite)[i].digits]
                          = <<<<0, 7, 0>>, <<0, 9, 0>>, <<0, 1, 0>>>>
               /\ config.unit = "f" =>
                      [i \in 1..3 |-> SelectSeq(cons_log, IsWrite)[i].digits]
                          = <<<<1, 5, 8>>, <<1, 9, 4>>, <<0, 5, 0>>>>

C13_Witness ==
    /\ program = "main.rs"
    /\ AllWritesOk
    /\ config.alerts
    /\ config.unit = "f"
    /\ config.high_threshold = Degrees(80)
    /\ config.low_threshold = Degrees(20)
    /\ Polled = <<Degrees(70), Degrees(90), Degrees(10)>>
    /\ Written = Polled
    /\ Len(SelectSeq(prod_log, IsAlert)) = 2

(* C14: the channel is FIFO and lossless: the readings received are always *)
(* a prefix of the readings sent; while the receiver exists, the readings  *)
(* received followed by those queued are exactly the readings sent, and    *)
(* one reading is sent per successful poll, equal neighbours included.     *)
C14_ChannelFifo ==
    program # "" =>
        /\ Len(Received) <= Len(Sent)
        /\ Received = SubSeq(Sent, 1, Len(Received))
        /\ RxAlive => /\ Received \o chan = Sent
                      /\ Sent = Polled

C14_Witness ==
    /\ program = "monitor.rs"
    /\ RxAlive
    /\ Polled = <<Degrees(70), Degrees(70), Degrees(10)>>
    /\ Received = <<Degrees(70), Degrees(70)>>
    /\ chan = <<Degrees(10)>>

(* A write that failed at index i of cons_log, followed by a connect that  *)
(* did or did not succeed.                                                 *)
FailedWriteThenConnect(i, ok) ==
    /\ i + 1 <= Len(cons_log)
    /\ cons_log[i].op = "write"
    /\ ~cons_log[i].ok
    /\ cons_log[i + 1].op = "connect_device"
    /\ cons_log[i + 1].ok = ok

(* C15: when a write fails and the reconnect that follows succeeds, the    *)
(* next thing the consumer does is write the same reading once more, on    *)
(* the new handle, before it takes another reading; whatever that retry    *)
(* returns, the consumer then takes the next reading.                      *)
C15_RetryAfterReconnect ==
    program = "main.rs" =>
        \A i \in 1..Len(cons_log) :
            FailedWriteThenConnect(i, TRUE) =>
                /\ main_pc # "recv"
                /\ i + 2 <= Len(cons_log) =>
                       /\ cons_log[i + 2].op = "write"
                       /\ cons_log[i + 2].temp = cons_log[i].temp
                       /\ cons_log[i + 2].handle = cons_log[i + 1].handle
                /\ i + 3 <= Len(cons_log) => cons_log[i + 3].op = "recv"

(* C16: when a write fails and the reconnect that follows fails too, the   *)
(* consumer makes no second reconnect attempt for that reading, sleeps 5   *)
(* seconds (every backoff has this length), then takes the next reading;   *)
(* the reading whose write failed is not written again and is not put      *)
(* back on the channel.                                                    *)
C16_BackoffThenNext ==
    program = "main.rs" =>
        /\ \A i \in 1..Len(cons_log) :
               cons_log[i].op = "sleep" => cons_log[i].secs = 5
        /\ \A i \in 1..Len(cons_log) :
               FailedWriteThenConnect(i, FALSE) =>
                   /\ Len(cons_log) = i + 1 => main_pc = "backoff"
                   /\ i + 2 <= Len(cons_log) => cons_log[i + 2].op = "sleep"
                   /\ i + 3 <= Len(cons_log) => cons_log[i + 3].op = "recv"
                   /\ \A j \in (i + 1)..Len(cons_log) :
                          cons_log[j].op = "write" =>
                              \E k \in (i + 1)..(j - 1) : cons_log[k].op = "recv"
        /\ Len(Received) + Len(chan) = Len(Sent)

C16_Witness ==
    /\ program = "main.rs"
    /\ Received = <<Degrees(90), Degrees(90), Degrees(70)>>
    /\ Len(cons_log) = 12
    /\ FailedWriteThenConnect(4, FALSE)
    /\ FailedWriteThenConnect(8, FALSE)
    /\ cons_log[6].op = "sleep"
    /\ cons_log[10].op = "sleep"
    /\ cons_log[12].op = "write"
    /\ cons_log[12].ok
    /\ cons_log[12].temp = Degrees(70)
    /\ main_pc = "recv"

(* The polling thread has been spawned and the process has not ended.      *)
Started == prod_pc # "unspawned"

(* C17: a poll whose reading fails (for monitor.rs: whose whole fallback   *)
(* chain fails) is followed by the sleep of the configured interval and    *)
(* then by the next poll: nothing is sent, no alert is emitted and the     *)
(* thread does not end; a later successful poll is sent as usual.          *)
C17_FailedPollSkipsCycle ==
    program # "" =>
        /\ \A i \in 1..Len(prod_log) :
               (prod_log[i].op = "poll" /\ ~prod_log[i].ok) =>
                   /\ i + 1 <= Len(prod_log)
                   /\ prod_log[i + 1].op = "sleep"
                   /\ prod_log[i + 1].secs = config.interval
                   /\ i + 2 <= Len(prod_log) => prod_log[i + 2].op = "poll"
        /\ RxAlive =>
               /\ Started => prod_pc = "poll"
               /\ Len(Received) + Len(chan) = Len(SelectSeq(prod_log, IsGoodPoll))
        /\ (program = "monitor.rs" /\ prod_log # <<>>) =>
               LET last == CHOOSE i \in 1..Len(prod_log) :
                               /\ prod_log[i].op = "poll"
                               /\ \A j \in (i + 1)..Len(prod_log) : prod_log[j].op # "poll"
                   chain_fails ==
                       IF config.sensor = "Cpu"
                       THEN ~CpuSensor_get_temperature(tools).ok
                       ELSE \A p \in 1..4 : ~GpuSensor_probe(p, tools).ok
               IN  ~prod_log[last].ok <=> chain_fails

C17_Witness ==
    /\ program = "monitor.rs"
    /\ config.sensor = "Gpu"
    /\ config.alerts
    /\ Len(prod_log) = 6
    /\ prod_log[1].op = "poll" /\ ~prod_log[1].ok
    /\ prod_log[2].op = "sleep"
    /\ prod_log[3].op = "poll" /\ prod_log[3].ok /\ prod_log[3].temp = Degrees(90)
    /\ prod_log[4].op = "alert"
    /\ prod_log[5].op = "send" /\ prod_log[5].ok
    /\ Received = <<Degrees(90)>>

(* C18: once startup has succeeded, neither loop reaches an end: whatever  *)
(* polls, writes and reconnects have failed, the polling thread stands at  *)
(* its loop and the main thread inside `for temp in rx` (for monitor.rs:   *)
(* the thread stands at its loop while the receiver is held), and a step   *)
(* of each is possible whenever it has something to do (a poll, as long as *)
(* the poll bound of the model is not reached; a receive, when a reading   *)
(* is queued).                                                             *)
C18_NoTerminalState ==
    Started =>
        /\ program = "main.rs" =>
               /\ prod_pc = "poll"
               /\ main_pc \in {"recv", "send_temp", "reconnect", "backoff"}
               /\ Polls < MaxPolls => ENABLED ProducerPoll
               /\ (main_pc # "recv" \/ chan # <<>>)
                      => ENABLED (Receive \/ SendTemp \/ Reconnect \/ Backoff)
        /\ (program = "monitor.rs" /\ RxAlive) =>
               /\ prod_pc = "poll"
               /\ Polls < MaxPolls => ENABLED MonitorPoll
               /\ chan # <<>> => ENABLED ReceiveReading

C18_Witness ==
    /\ program = "main.rs"
    /\ Started
    /\ \E i \in 1..Len(prod_log) : prod_log[i].op = "poll" /\ ~prod_log[i].ok
    /\ \E i \in 1..Len(cons_log) : FailedWriteThenConnect(i, FALSE)
    /\ \E i \in 1..Len(cons_log) : FailedWriteThenConnect(i, TRUE)
    /\ main_pc = "recv"
    /\ prod_pc = "poll"
    /\ Polls = MaxPolls

StartupFailed ==
    \/ /\ Len(cons_log) >= 1
       /\ cons_log[1].op = "HidApi::new"
       /\ ~cons_log[1].ok
    \/ /\ Len(cons_log) >= 2
       /\ cons_log[2].op = "connect_device"
       /\ ~cons_log[2].ok

(* C19: in main.rs a failure of HidApi::new or of the connect_device at    *)
(* startup ends the process with exit status 1 before the polling thread   *)
(* is spawned, before any poll and before any write; the process ends in   *)
(* no other way.                                                           *)
C19_StartupFailuresFatal ==
    program = "main.rs" =>
        /\ StartupFailed =>
               /\ main_pc = "exit"
               /\ cons_log[Len(cons_log)].op = "process::exit"
               /\ cons_log[Len(cons_log)].code = 1
               /\ prod_pc = "unspawned"
               /\ prod_log = <<>>
               /\ chan = <<>>
               /\ \A i \in 1..Len(cons_log) : cons_log[i].op \notin {"write", "recv"}
        /\ main_pc \in {"exit", "returned"} => StartupFailed
        /\ (\E i \in 1..Len(cons_log) : cons_log[i].op = "process::exit")
               => (main_pc = "exit" /\ StartupFailed)

C19_Witness ==
    /\ program = "main.rs"
    /\ main_pc = "exit"
    /\ Len(cons_log) = 3
    /\ cons_log[1].op = "HidApi::new" /\ cons_log[1].ok
    /\ cons_log[2].op = "connect_device" /\ ~cons_log[2].ok
    /\ cons_log[3].code = 1
    /\ prod_pc = "unspawned"

---------------------------------------------------------------------------
(* Properties of the DeviceManager                                         *)
WriteFailedAt(i) ==
    dm_log[i].op = "send_temperature" /\ ~dm_log[i].ok /\ dm_log[i].len > 0

ConnectedAt(i) == dm_log[i].op \in {"connect", "reconnect"} /\ dm_log[i].ok

(* C20: the DeviceManager reports itself connected only between a connect  *)
(* or reconnect that succeeded and the next write failure: it is           *)
(* disconnected when constructed, after a send that failed with a write    *)
(* error, and from then on until a connect or reconnect succeeds.          *)
C20_DeviceStateMachine ==
    dm.api =>
        /\ DeviceManager_is_connected(dm) =>
               \E i \in 1..Len(dm_log) :
                   /\ ConnectedAt(i)
                   /\ \A j \in (i + 1)..Len(dm_log) : ~WriteFailedAt(j)
        /\ (dm_log # <<>> /\ WriteFailedAt(Len(dm_log)))
               => ~DeviceManager_is_connected(dm)

(* The handle the manager holds after the first i calls of dm_log.         *)
RECURSIVE HandleAfter(_)
HandleAfter(i) ==
    IF i = 0 THEN NoHandle
    ELSE IF dm_log[i].op = "connect" /\ dm_log[i].ok THEN dm_log[i].handle
    ELSE IF dm_log[i].op = "reconnect" THEN dm_log[i].handle
    ELSE IF dm_log[i].op = "new" THEN NoHandle
    ELSE HandleAfter(i - 1)

OpensBefore(i) == Cardinality({k \in 1..(i - 1) : ConnectedAt(k)})

IsDisplay(d) == d.vendor_id = VID /\ d.product_id = PID

WroteAt(j) == dm_log[j].op = "send_temperature" /\ dm_log[j].write # ""

(* C21: reconnect drops the handle before it scans.  After a reconnect     *)
(* that failed the manager holds no handle, is_connected is false, and no  *)
(* later write goes to a handle opened before that reconnect; after one    *)
(* that succeeded the manager holds a handle opened by that call, not held *)
(* before, to a device with vendor id 0x1a2c and product id 0x434d.  Both  *)
(* hold whether or not a handle was held when reconnect was called.        *)
C21_ReconnectDropsHandle ==
    \A i \in 1..Len(dm_log) :
        dm_log[i].op = "reconnect" =>
            /\ ~dm_log[i].ok =>
                   /\ dm_log[i].handle = NoHandle
                   /\ i = Len(dm_log) => ~DeviceManager_is_connected(dm)
                   /\ \A j \in (i + 1)..Len(dm_log) :
                          WroteAt(j) => dm_log[j].handle.n > OpensBefore(i)
            /\ dm_log[i].ok =>
                   /\ dm_log[i].handle.open
                   /\ dm_log[i].handle.n = OpensBefore(i) + 1
                   /\ \A k \in 1..(i - 1) : dm_log[k].handle # dm_log[i].handle
                   /\ \E x \in 1..Len(dm_log[i].scan) :
                          /\ IsDisplay(dm_log[i].scan[x])
                          /\ dm_log[i].scan[x].path = dm_log[i].handle.path
                   /\ i = Len(dm_log) =>
                          /\ DeviceManager_is_connected(dm)
                          /\ dm.device = dm_log[i].handle

(* A reconnect that failed while a handle was held, then a reconnect that  *)
(* succeeded with no handle held.                                          *)
C21_Witness ==
    /\ Len(dm_log) = 4
    /\ dm_log[2].op = "connect" /\ dm_log[2].ok
    /\ dm_log[3].op = "reconnect" /\ ~dm_log[3].ok
    /\ dm_log[4].op = "reconnect" /\ dm_log[4].ok
    /\ dm.device.n = 2

(* The entries of device_list with the ids of the display, and those of    *)
(* them that open.                                                         *)
Matching(device_list) == {x \in 1..Len(device_list) : IsDisplay(device_list[x])}
Openable(device_list) == {x \in Matching(device_list) : device_list[x].opens}

RECURSIVE PathsUpTo(_, _, _)
PathsUpTo(device_list, x, last) ==
    IF x > Len(device_list) \/ x > last THEN <<>>
    ELSE IF x \in Matching(device_list)
         THEN <<device_list[x].path>> \o PathsUpTo(device_list, x + 1, last)
    ELSE PathsUpTo(device_list, x + 1, last)

(* C22: connect hands to open_path only the enumerated devices with vendor *)
(* id 0x1a2c and product id 0x434d, in enumeration order, goes on to the   *)
(* next candidate when one does not open and stops at the first that       *)
(* opens.  It returns Ok exactly when some candidate opens, and then holds *)
(* the first such candidate; otherwise it returns the device error.  The   *)
(* connect_device of main.rs returns the same result on the same list.     *)
C22_ConnectFirstOpenable ==
    \A i \in 1..Len(dm_log) :
        dm_log[i].op \in {"connect", "reconnect"} =>
            LET device_list == dm_log[i].scan
                O == Openable(device_list)
            IN  /\ dm_log[i].ok <=> O # {}
                /\ dm_log[i].ok =>
                       /\ dm_log[i].handle.path = device_list[Min(O)].path
                       /\ dm_log[i].tried = PathsUpTo(device_list, 1, Min(O))
                       /\ i = Len(dm_log) => dm.device = dm_log[i].handle
                /\ ~dm_log[i].ok =>
                       /\ dm_log[i].err = "Device"
                       /\ dm_log[i].tried = PathsUpTo(device_list, 1, Len(device_list))
                /\ \A t \in 1..Len(dm_log[i].tried) :
                       \E x \in Matching(device_list) :
                           device_list[x].path = dm_log[i].tried[t]
                /\ connect_device(device_list).ok = dm_log[i].ok
                /\ dm_log[i].ok => connect_device(device_list).path = dm_log[i].handle.path

(* A scan that passes a foreign device and a display that does not open,   *)
(* and opens the first of two displays that do.                            *)
C22_Witness ==
    /\ dm_log # <<>>
    /\ dm_log[Len(dm_log)].op = "connect"
    /\ dm_log[Len(dm_log)].scan = <<DevBusy, DevGood2, DevGood>>
    /\ dm_log[Len(dm_log)].tried = <<"/dev/hidraw1", "/dev/hidraw3">>
    /\ dm.device.path = "/dev/hidraw3"

(* C23: with a handle held, send_temperature hands the full 64-byte report *)
(* to one write and succeeds exactly when that write returns no error, a   *)
(* short write included; a write error gives the device error.  With no    *)
(* handle held it gives the device error and writes nothing.  No send      *)
(* changes the handle held.  In main.rs the consumer goes to reconnect     *)
(* after send_temp exactly when the write returned an error.               *)
C23_SendOutcome ==
    /\ \A i \in 1..Len(dm_log) :
           dm_log[i].op = "send_temperature" =>
               /\ HandleAfter(i - 1).open =>
                      /\ dm_log[i].write # ""
                      /\ dm_log[i].handle = HandleAfter(i - 1)
                      /\ dm_log[i].len = 64
                      /\ dm_log[i].ok <=> dm_log[i].write = "Ok"
                      /\ ~dm_log[i].ok => dm_log[i].err = "Device"
               /\ ~HandleAfter(i - 1).open =>
                      /\ ~dm_log[i].ok
                      /\ dm_log[i].err = "Device"
                      /\ dm_log[i].write = ""
                      /\ dm_log[i].len = 0
               /\ i = Len(dm_log) => dm.device = HandleAfter(i - 1)
    /\ \A written \in WriteOutcomes, t \in SendTemps :
           LET r == send_temp(NoHandle, t, "c", written)
           IN  /\ r.ok = written.ok
               /\ r.log[1].len = 64
               /\ after_send_temp(r.ok) = IF written.ok THEN "recv" ELSE "reconnect"

(* A send with no handle held, then, a handle opened, a short write that   *)
(* succeeded.                                                              *)
C23_Witness ==
    /\ Len(dm_log) = 4
    /\ dm_log[2].op = "send_temperature" /\ dm_log[2].write = ""
    /\ dm_log[4].op = "send_temperature"
    /\ dm_log[4].ok
    /\ dm_log[4].wrote = 8

---------------------------------------------------------------------------
(* Properties of the configuration                                         *)

(* C24: the polling thread only ever runs with a configuration in which    *)
(* the high threshold is greater than the low threshold and the interval   *)
(* is greater than zero.                                                   *)
C24_RunsWithValidConfig ==
    prod_pc \in {"poll", "exited"} =>
        /\ F32Lt(config.low_threshold, config.high_threshold)
        /\ config.interval > 0

(* C25: Config::validate returns the configuration error exactly when the  *)
(* high threshold is less than or equal to the low threshold or the        *)
(* interval is zero seconds, and otherwise returns the configuration it    *)
(* was given, every field unchanged.                                       *)
C25_ValidateRejectsExactly ==
    validated.fn = "validate" =>
        LET invalid ==
                \/ F32Lt(config.high_threshold, config.low_threshold)
                \/ /\ config.high_threshold.k # "nan"
                   /\ config.high_threshold = config.low_threshold
                \/ config.interval = 0
        IN  /\ ~validated.ok <=> invalid
            /\ ~validated.ok => validated.err = "Config"
            /\ validated.ok => validated.config = config

(* Equal thresholds with a good interval are rejected.                     *)
C25_Witness ==
    /\ validated.fn = "validate"
    /\ ~validated.ok
    /\ config.high_threshold = Degrees(80)
    /\ config.low_threshold = Degrees(80)
    /\ config.interval = 1

---------------------------------------------------------------------------
(* Properties of the SensorManager                                         *)

(* C26: for each sensor kind, when is_sensor_available answers true,       *)
(* get_temperature on the same outputs of the external commands returns a  *)
(* reading.                                                                *)
C26_AvailableImpliesReadable ==
    (sensor_info.kind # "none" /\ sensor_info.available) => sensor_info.ok

---------------------------------------------------------------------------
(* Properties of the two threads and the channel between them              *)

C28_ProducerNeverBlocked ==
    /\ [](/\ (prod_pc = "poll" /\ Polls < MaxPolls) => ENABLED ProducerPoll
          /\ Received \o chan = Sent
          /\ Sent = Polled)
    /\ \A n \in 1..MaxPolls : (Len(Sent) >= n) ~> (Len(Received) >= n)

(* Three readings are queued while the consumer sleeps after a failed      *)
(* reconnection.                                                           *)
C28_Witness ==
    /\ main_pc = "backoff"
    /\ Len(chan) = 2
    /\ Len(Sent) = 3
    /\ Len(Received) = 1

(* C29: every successful poll is followed in the log of the polling thread *)
(* by the alert of its threshold check, if any, and only then by the send  *)
(* of the reading; the alert depends on the reading and the configuration  *)
(* alone.  The k-th reading written is the k-th reading sent, so its check *)
(* came before its write, and it was made whatever became of the write.    *)
C29_AlertBeforeHandoff ==
    program # "" =>
        /\ \A i \in 1..Len(prod_log) :
               IsGoodPoll(prod_log[i]) =>
                   LET t == prod_log[i].temp
                       n == IF config.alerts /\ OutOfRange(t) THEN 1 ELSE 0
                   IN  /\ Len(prod_log) >= i + n + 1
                       /\ n = 1 => /\ prod_log[i + 1].op = "alert"
                                   /\ prod_log[i + 1].temp = t
                       /\ prod_log[i + n + 1].op = "send"
                       /\ prod_log[i + n + 1].temp = t
        /\ \A i \in 1..Len(prod_log) :
               IsAlert(prod_log[i]) => i > 1 /\ IsGoodPoll(prod_log[i - 1])
        /\ program = "main.rs" =>
               /\ Len(Written) <= Len(Sent)
               /\ Written = SubSeq(Sent, 1, Len(Written))

(* A reading of 90 raised its alert, and its write failed, as did the      *)
(* reconnection after it.                                                  *)
C29_Witness ==
    /\ program = "main.rs"
    /\ main_pc = "backoff"
    /\ Len(prod_log) >= 2
    /\ prod_log[1].op = "poll" /\ prod_log[1].temp = Degrees(90)
    /\ prod_log[2].op = "alert" /\ prod_log[2].kind = "high"
    /\ Written = <<Degrees(90)>>
    /\ ~AllWritesOk

(* The log of the consumer from entry i on.                                *)
IsConnect(e) == e.op = "connect_device"

(* From entry i of the log on, the device is there: every scan opens it,   *)
(* and every write to a handle opened from then on succeeds.               *)
RecoveredAfter(i) ==
    \A j \in (i + 1)..Len(cons_log) :
        /\ IsConnect(cons_log[j]) => cons_log[j].ok
        /\ (/\ IsWrite(cons_log[j])
            /\ \E k \in (i + 1)..(j - 1) :
                   IsConnect(cons_log[k]) /\ cons_log[k].handle = cons_log[j].handle)
               => cons_log[j].ok

RecvsAfter(i) == Cardinality({j \in (i + 1)..Len(cons_log) : IsRecv(cons_log[j])})

OkWriteAfter(i) ==
    \E j \in (i + 1)..Len(cons_log) : IsWrite(cons_log[j]) /\ cons_log[j].ok

FailedWriteAt(i) == i >= 1 /\ i <= Len(cons_log) /\ IsWrite(cons_log[i]) /\ ~cons_log[i].ok

(* The latest entry at which a recovery still leaves two readings to come. *)
MaxRecoverAt == 4 * (MaxPolls - 2) + 2

(* C30: in main.rs under fair scheduling, whatever writes and              *)
(* reconnections failed before, once the device answers again and two      *)
(* more readings arrive, a reading is written successfully: a write that   *)
(* fails on the old handle is followed by a reconnection, the handle it    *)
(* opens replaces the old one, and the next reading is written to it.  A   *)
(* failed reconnection keeps the old handle, and the next failing write    *)
(* attempts the reconnection again.                                        *)
C30_EventualRecovery ==
    /\ \A i \in 0..MaxRecoverAt :
           ([]RecoveredAfter(i) /\ <>(RecvsAfter(i) >= 2)) => <>OkWriteAfter(i)
    /\ [](\A i \in 1..Len(cons_log) :
              FailedWriteAt(i) =>
                  /\ i = Len(cons_log) => main_pc = "reconnect"
                  /\ i < Len(cons_log) => IsConnect(cons_log[i + 1])
                  /\ (i < Len(cons_log) /\ ~cons_log[i + 1].ok) =>
                         \A j \in (i + 2)..Len(cons_log) :
                             (IsWrite(cons_log[j])
                                 /\ \A k \in (i + 2)..(j - 1) : ~IsConnect(cons_log[k]))
                                 => cons_log[j].handle = cons_log[i].handle)

(* A write and the reconnection after it failed; the next write failed on  *)
(* the old handle, the reconnection opened a new one, and the third        *)
(* reading was written to it.                                              *)
C30_Witness ==
    /\ Len(cons_log) = 11
    /\ FailedWriteAt(4)
    /\ IsConnect(cons_log[5]) /\ ~cons_log[5].ok
    /\ cons_log[6].op = "sleep"
    /\ FailedWriteAt(8)
    /\ cons_log[8].handle.n = 1
    /\ IsConnect(cons_log[9]) /\ cons_log[9].ok
    /\ IsWrite(cons_log[11]) /\ cons_log[11].ok /\ cons_log[11].handle.n = 2
    /\ main_pc = "recv"

=============================================================================
